---- MODULE Spec2Model ----
(***************************************************************************)
(* Model of the Transparent Classroom client (src/src/client.rs):          *)
(* Client::login with its three strategies, Client::get_posts with its    *)
(* primary / fallback / discovery cascade, Client::crawl_all_posts, and    *)
(* Client::download_photo and Client::download_all_photos over one output  *)
(* directory.                                                              *)
(*                                                                         *)
(* Strings are sequences of fragments.  format!() is concatenation of the  *)
(* fragment sequences; str::contains is looked up in the table NeedlesOf,  *)
(* which lists, for every fragment, the searched-for needles that occur    *)
(* in it.  No needle of the program spans two fragments of the model.      *)
(***************************************************************************)
EXTENDS Integers, Sequences, FiniteSets, TLC

(***************************************************************************)
(* Bounds                                                                  *)
(***************************************************************************)
MaxDoc == 2       \* elements of a sign-in page that the model enumerates
MaxLinks == 2     \* anchors of the school page that the model enumerates
MaxPage == 2      \* largest page number passed to get_posts
MaxCrawl == 3     \* largest page number that crawl_all_posts reaches
MaxIndex == 2     \* largest photo index passed to download_photo

(***************************************************************************)
(* Text                                                                    *)
(***************************************************************************)
NeedlesOf(f) ==
  CASE f = "408 Request Timeout" -> {"408", "Timeout"}
    [] f = "upstream timeout" -> {"timeout"}
    [] f = "Could not find CSRF token in sign-in form" -> {"Could not find CSRF token"}
    [] f = "Could not find sign-in form in page" -> {"Could not find sign-in form"}
    [] f = "/schools" -> {"/schools"}
    [] f = "/posts.json?locale=en" -> {".json"}
    [] f = "/feed.json" -> {".json", "feed"}
    [] f = "/observations" -> {"observation"}
    [] f = "/observations?page=" -> {"observation"}
    [] f = "posts" -> {"post"}
    [] f = "/photos" -> {"^/", "photo"}
    [] f = "/events" -> {"event"}
    [] f = "/api/v1/events" -> {"event"}
    [] f = "http://127.0.0.1:1234" -> {"^http", "^http://127.0.0.1"}
    [] f = "http://localhost:8080" -> {"^http", "^http://localhost"}
    [] f = "http://localhost.example.com" -> {"^http", "^http://localhost"}
    [] f = "https://www.transparentclassroom.com" -> {"^http"}
    [] f = "https://cdn.example.net" -> {"^http"}
    [] OTHER -> {}

\* str::contains
Contains(text, needle) ==
  \E i \in 1..Len(text) : needle \in NeedlesOf(text[i])

\* str::starts_with; a needle written "^p" stands for the prefix p
StartsWith(text, prefix) ==
  Len(text) > 0 /\ prefix \in NeedlesOf(text[1])

RECURSIVE IndexOf(_, _, _)
IndexOf(text, frag, i) ==
  IF i > Len(text) THEN 0
  ELSE IF text[i] = frag THEN i
  ELSE IndexOf(text, frag, i + 1)

\* text.split("/schools").next().unwrap_or(text)
RootDomain(text) ==
  LET i == IndexOf(text, "/schools", 1)
  IN IF i = 0 THEN text ELSE SubSeq(text, 1, i - 1)

(***************************************************************************)
(* Configuration and HTTP                                                  *)
(***************************************************************************)
ChildId == "7"
SchoolId == "1"

\* Client::new builds the third one; the others come from new_with_base_url
BaseUrls ==
  { <<"http://127.0.0.1:1234">>,
    <<"http://localhost:8080", "/schools", "/", SchoolId>>,
    <<"https://www.transparentclassroom.com", "/schools", "/", SchoolId>>,
    <<"http://localhost.example.com", "/schools", "/", SchoolId>> }

\* the hosts that are the local machine
LoopbackOrigins == {"http://127.0.0.1:1234", "http://localhost:8080"}

Statuses == {200, 204, 302, 401, 408, 500}

\* Display of http::StatusCode
StatusText(s) ==
  CASE s = 200 -> "200 OK"
    [] s = 204 -> "204 No Content"
    [] s = 302 -> "302 Found"
    [] s = 401 -> "401 Unauthorized"
    [] s = 408 -> "408 Request Timeout"
    [] s = 500 -> "500 Internal Server Error"

is_success(s) == s >= 200 /\ s < 300

is_redirection(s) == s >= 300 /\ s < 400

\* what send() can fail with
Causes == {"connection refused", "operation timed out"}

\* Display of the transport error of a request to url
SendError(url, cause) ==
  <<"error sending request for url (">> \o url \o <<"): ", cause>>

HttpResps == [t : {"http"}, status : Statuses]

SendResps == [t : {"err"}, cause : Causes]

Resps == HttpResps \cup SendResps

NoResp == [t |-> "none"]

NoPost == [id |-> <<>>]

(***************************************************************************)
(* Results and errors                                                      *)
(***************************************************************************)
Ok == [ok |-> TRUE]

Generic(msg) == [ok |-> FALSE, kind |-> "Generic", msg |-> msg]

Parse(msg) == [ok |-> FALSE, kind |-> "Parse", msg |-> msg]

\* AppError::Io, with the Display of the std::io::Error
Io(msg) == [ok |-> FALSE, kind |-> "Io", msg |-> msg]

NoResult == [ok |-> FALSE, kind |-> "none", msg |-> <<>>]

\* a panic of the thread: the call does not return
Panic(msg) == [ok |-> FALSE, kind |-> "panic", msg |-> msg]

\* Display of AppError
Display(e) ==
  IF e.kind = "Parse" THEN <<"Parse error: ">> \o e.msg
  ELSE IF e.kind = "Io" THEN <<"IO error: ">> \o e.msg
  ELSE e.msg

\* Debug of AppError
DebugFmt(e) == <<e.kind, "(">> \o e.msg \o <<")">>

\* Result::or
ResultOr(a, b) == IF a.ok THEN a ELSE b

(***************************************************************************)
(* Sign-in page: the elements that extract_csrf_token selects, in document *)
(* order.  A form has or lacks the soul[login] input and holds at most one *)
(* authenticity_token input; tok is "none" when the form has no such       *)
(* input, "novalue" when the input (or the meta tag) has no value          *)
(* attribute, and the token otherwise.                                     *)
(***************************************************************************)
FormElems == [k : {"form"}, login : BOOLEAN, tok : {"none", "novalue", "tokA", "tokB"}]

MetaElems == [k : {"meta"}, login : {FALSE}, tok : {"novalue", "tokM"}]

InputElems == [k : {"input"}, login : {FALSE}, tok : {"novalue", "tokI"}]

Elems == FormElems \cup MetaElems \cup InputElems

Docs == UNION { [1..n -> Elems] : n \in 0..MaxDoc }

RECURSIVE FirstIdx(_, _, _)
\* select(sel).next(): the index of the first element of doc, from i on,
\* that is of kind sel; 0 if there is none
FirstIdx(doc, sel, i) ==
  IF i > Len(doc) THEN 0
  ELSE IF sel \in doc[i].k THEN i
  ELSE FirstIdx(doc, sel, i + 1)

\* a form with the soul[login] input
IsSigninForm(e) == e.k = "form" /\ e.login

IsMeta(e) == e.k = "meta"

\* input[name="authenticity_token"] anywhere in the document
HasTokenInput(e) == e.k \in {"form", "input"} /\ e.tok # "none"

\* the selectors that each element of doc matches
Matches(doc) ==
  [i \in 1..Len(doc) |->
    [k |-> (IF IsSigninForm(doc[i]) THEN {"signin_form"} ELSE {})
           \cup (IF IsMeta(doc[i]) THEN {"meta"} ELSE {})
           \cup (IF HasTokenInput(doc[i]) THEN {"token_input"} ELSE {})]]

\* Client::extract_csrf_token looking for the login field in the first form only
extract_csrf_token_FirstFormOnly(doc) ==
  LET f == IF doc # <<>> /\ IsSigninForm(doc[1]) THEN 1 ELSE 0
      m == FirstIdx(Matches(doc), "meta", 1)
      a == FirstIdx(Matches(doc), "token_input", 1)
  IN IF f # 0 /\ doc[f].tok \notin {"none", "novalue"}
       THEN [ok |-> TRUE, tok |-> doc[f].tok]
     ELSE IF m # 0 /\ doc[m].tok # "novalue"
       THEN [ok |-> TRUE, tok |-> doc[m].tok]
     ELSE IF a # 0 /\ doc[a].tok # "novalue"
       THEN [ok |-> TRUE, tok |-> doc[a].tok]
     ELSE IF f # 0
       THEN Parse(<<"Could not find CSRF token in sign-in form">>)
     ELSE Parse(<<"Could not find sign-in form in page">>)

\* Client::extract_csrf_token
extract_csrf_token_NoFormCheck(doc) ==
  LET f == FirstIdx(Matches(doc), "signin_form", 1)
      m == FirstIdx(Matches(doc), "meta", 1)
      a == FirstIdx(Matches(doc), "token_input", 1)
  IN IF f # 0 /\ doc[f].tok \notin {"none", "novalue"}
       THEN [ok |-> TRUE, tok |-> doc[f].tok]
     ELSE IF m # 0 /\ doc[m].tok # "novalue"
       THEN [ok |-> TRUE, tok |-> doc[m].tok]
     ELSE IF a # 0 /\ doc[a].tok # "novalue"
       THEN [ok |-> TRUE, tok |-> doc[a].tok]
     ELSE Parse(<<"Could not find CSRF token in sign-in form">>)

extract_csrf_token(doc) ==
  LET f == FirstIdx(Matches(doc), "signin_form", 1)
      m == FirstIdx(Matches(doc), "meta", 1)
      a == FirstIdx(Matches(doc), "token_input", 1)
      found_signin_form == f # 0
  IN IF f # 0 /\ doc[f].tok \notin {"none", "novalue"}
       THEN [ok |-> TRUE, tok |-> doc[f].tok]
     ELSE IF m # 0 /\ doc[m].tok # "novalue"
       THEN [ok |-> TRUE, tok |-> doc[m].tok]
     ELSE IF a # 0 /\ doc[a].tok # "novalue"
       THEN [ok |-> TRUE, tok |-> doc[a].tok]
     ELSE IF found_signin_form
       THEN Parse(<<"Could not find CSRF token in sign-in form">>)
     ELSE Parse(<<"Could not find sign-in form in page">>)

(***************************************************************************)
(* Responses of the three login requests                                   *)
(***************************************************************************)
\* the sign-in page answer: bodyok is FALSE when reading the body fails
SigninResps == SendResps \cup [t : {"http"}, status : Statuses, bodyok : BOOLEAN]

\* what login_web_form looks for in the body of the answer to the POST
\* (an invalid-credentials phrase, both login field names, an authenticated
\* marker, a title naming the login page) and the start of the body
PlainBody == [invalid |-> FALSE, fields |-> FALSE, marker |-> FALSE, title |-> FALSE,
              excerpt |-> "<html>"]

\* the start of a body whose byte 200 lies inside a multi-byte character
SplitExcerpt == "byte 200 inside a character"

Bodies ==
  [invalid : BOOLEAN, fields : BOOLEAN, marker : BOOLEAN, title : BOOLEAN, excerpt : {"<html>"}]
  \cup {[PlainBody EXCEPT !.excerpt = "upstream timeout"]}
  \cup {[PlainBody EXCEPT !.excerpt = SplitExcerpt]}

\* the Location header: absent, not a visible-ASCII string, or a URL
Locations == {"none", "opaque", "same", "other"}

PostResps ==
  SendResps
  \cup [t : {"http"}, status : Statuses, loc : {"none"}, bodyok : {TRUE}, body : Bodies]
  \cup [t : {"http"}, status : Statuses, loc : {"none"}, bodyok : {FALSE}, body : {PlainBody}]
  \cup [t : {"http"}, status : {302}, loc : Locations \ {"none"}, bodyok : {TRUE}, body : {PlainBody}]

LocationUrl(base, loc) ==
  IF loc = "same" THEN RootDomain(base) \o <<"/dashboard">>
  ELSE <<"https://cdn.example.net", "/welcome">>

api_url(base) == base \o <<"/api/v1/children/", ChildId>>

sign_in_url(base) == RootDomain(base) \o <<"/souls/sign_in", "?locale=en">>

post_url(base) == RootDomain(base) \o <<"/souls/sign_in">>

\* Client::login_api_basic_auth
login_api_basic_auth_Only200(base, resp) ==
  IF resp.t = "err"
    THEN Generic(<<"Failed to access API: ">> \o SendError(api_url(base), resp.cause))
  ELSE IF resp.status # 200
    THEN Generic(<<"API authentication failed with status: ", StatusText(resp.status)>>)
  ELSE Ok

login_api_basic_auth(base, resp) ==
  IF resp.t = "err"
    THEN Generic(<<"Failed to access API: ">> \o SendError(api_url(base), resp.cause))
  ELSE IF ~is_success(resp.status)
    THEN Generic(<<"API authentication failed with status: ", StatusText(resp.status)>>)
  ELSE Ok

\* Client::login_web_form, step 1 and 2: the outcome of fetching the sign-in
\* page, an error or the token to submit
signin_page(base, resp, doc) ==
  IF resp.t = "err"
    THEN Generic(<<"Failed to fetch sign-in page: ">> \o SendError(sign_in_url(base), resp.cause))
  ELSE IF ~is_success(resp.status)
    THEN Generic(<<"Failed to fetch sign-in page. Status: ", StatusText(resp.status)>>)
  ELSE IF ~resp.bodyok
    THEN Generic(<<"Failed to read sign-in page content: ", "error decoding response body">>)
  ELSE extract_csrf_token(doc)

\* Client::login_web_form, step 4: does the answer to the POST end the
\* function with Ok at the redirect check
redirected(resp) ==
  resp.t = "http" /\ is_redirection(resp.status) /\ resp.loc # "none"

\* the same without the look at the title
post_outcome_NoTitle(base, resp) ==
  IF resp.t = "err"
    THEN Generic(<<"Failed to submit login form: ">> \o SendError(post_url(base), resp.cause))
  ELSE IF ~resp.bodyok
    THEN Generic(<<"Failed to read post-login response: ", "error decoding response body">>)
  ELSE IF resp.body.invalid
    THEN Generic(<<"Login failed: Invalid email or password">>)
  ELSE IF resp.body.fields
    THEN Generic(<<"Login failed: Still seeing login form after submission">>)
  ELSE IF resp.body.marker
    THEN Ok
  ELSE IF is_success(resp.status)
    THEN Ok
  ELSE IF resp.body.excerpt = SplitExcerpt
    THEN Panic(<<"byte index 200 is not a char boundary">>)
  ELSE Generic(<<"Login failed with status: ", StatusText(resp.status),
                 ". Response preview: ", resp.body.excerpt>>)

\* Client::login_web_form, step 4: the outcome when the redirect check did
\* not return
post_outcome(base, resp) ==
  IF resp.t = "err"
    THEN Generic(<<"Failed to submit login form: ">> \o SendError(post_url(base), resp.cause))
  ELSE IF ~resp.bodyok
    THEN Generic(<<"Failed to read post-login response: ", "error decoding response body">>)
  ELSE IF resp.body.invalid
    THEN Generic(<<"Login failed: Invalid email or password">>)
  ELSE IF resp.body.fields
    THEN Generic(<<"Login failed: Still seeing login form after submission">>)
  ELSE IF resp.body.marker
    THEN Ok
  ELSE IF resp.body.title
    THEN Generic(<<"Login failed: Still on login page after submission">>)
  ELSE IF is_success(resp.status)
    THEN Ok
  ELSE IF resp.body.excerpt = SplitExcerpt
    THEN Panic(<<"byte index 200 is not a char boundary">>)
  ELSE Generic(<<"Login failed with status: ", StatusText(resp.status),
                 ". Response preview: ", resp.body.excerpt>>)

(***************************************************************************)
(* Client::should_use_mock_mode                                            *)
(***************************************************************************)
is_mock_server(base) ==
  StartsWith(base, "^http://127.0.0.1") \/ StartsWith(base, "^http://localhost")

has_timeout_error(r) ==
  IF ~r.ok /\ r.kind = "Generic"
    THEN Contains(r.msg, "timeout") \/ Contains(r.msg, "408") \/ Contains(r.msg, "Timeout")
  ELSE FALSE

has_malformed_response_AnyParse(r) == ~r.ok /\ r.kind = "Parse"

has_malformed_response(r) ==
  IF ~r.ok /\ r.kind = "Parse"
    THEN Contains(r.msg, "Could not find sign-in form")
         \/ (Contains(r.msg, "malformed") /\ ~Contains(r.msg, "Could not find CSRF token"))
  ELSE FALSE

should_use_mock_mode(base, api_error, web_error) ==
  IF ~is_mock_server(base) THEN FALSE
  ELSE IF has_timeout_error(api_error) \/ has_timeout_error(web_error)
          \/ has_malformed_response(api_error) \/ has_malformed_response(web_error)
    THEN FALSE
  ELSE TRUE

\* Client::login from the point where both results are known: the value
\* returned and the new value of the mock_mode flag
login_tail_Eager(base, mock, api_result, web_result) ==
  IF web_result.ok THEN [res |-> Ok, mock |-> TRUE]
  ELSE IF should_use_mock_mode(base, api_result, web_result)
    THEN [res |-> Ok, mock |-> TRUE]
  ELSE [res |-> ResultOr(web_result, api_result), mock |-> mock]

login_tail(base, mock, api_result, web_result) ==
  IF web_result.ok THEN [res |-> Ok, mock |-> mock]
  ELSE IF should_use_mock_mode(base, api_result, web_result)
    THEN [res |-> Ok, mock |-> TRUE]
  ELSE [res |-> ResultOr(web_result, api_result), mock |-> mock]

(***************************************************************************)
(* Client::get_posts: the candidate URLs                                   *)
(***************************************************************************)
Pages == 0..MaxPage

primary_url(base, page) ==
  IF is_mock_server(base)
    THEN IF page = 0 THEN base \o <<"/observations">>
         ELSE base \o <<"/observations?page=", ToString(page)>>
  ELSE IF page <= 1
    THEN <<"https://www.transparentclassroom.com", "/s/", SchoolId, "/children/", ChildId,
           "/posts.json?locale=en">>
  ELSE <<"https://www.transparentclassroom.com", "/s/", SchoolId, "/children/", ChildId,
         "/posts.json?locale=en", "&page=", ToString(page)>>

fallback_urls(base, page) ==
  LET root == IF Contains(base, "/schools") THEN RootDomain(base) ELSE base
  IN << IF page = 0 THEN root \o <<"/observations">>
        ELSE root \o <<"/observations?page=", ToString(page)>>,
        base \o <<"/children/", ChildId, "/observations">>,
        base \o <<"/api/v1/children/", ChildId, "/events">>,
        base \o <<"/api/v1/children/", ChildId, "/photos">>,
        base \o <<"/api/v1/events">>,
        base \o <<"/dashboard">>,
        base >>

(***************************************************************************)
(* Client::discover_endpoints                                              *)
(***************************************************************************)
\* the href attributes of the anchors of a school page
Hrefs == { <<"https://cdn.example.net", "/feed.json">>, <<"/photos">>, <<"posts">>, <<"about">> }

LinkLists == UNION { [1..n -> Hrefs] : n \in 0..MaxLinks }

Keywords == {"observation", "event", "photo", "post", "feed", "timeline"}

full_url(base, href) ==
  IF StartsWith(href, "^http") THEN href
  ELSE IF StartsWith(href, "^/") THEN <<"https://www.transparentclassroom.com">> \o href
  ELSE base \o <<"/">> \o href

\* the byte order of the fragments that two candidate URLs can differ in
FragOrd(f) ==
  CASE f = "/" -> 1
    [] f = "/feed.json" -> 2
    [] f = "/photos" -> 3
    [] f = "/schools" -> 4
    [] f = "http://127.0.0.1:1234" -> 5
    [] f = "http://localhost.example.com" -> 6
    [] f = "http://localhost:8080" -> 7
    [] f = "https://cdn.example.net" -> 8
    [] f = "https://www.transparentclassroom.com" -> 9
    [] OTHER -> 0

RECURSIVE StrLess(_, _, _)
\* String's Ord: a < b, comparing from fragment i on
StrLess(a, b, i) ==
  IF i > Len(b) THEN FALSE
  ELSE IF i > Len(a) THEN TRUE
  ELSE IF a[i] = b[i] THEN StrLess(a, b, i + 1)
  ELSE FragOrd(a[i]) < FragOrd(b[i])

RECURSIVE SortedDedup_Descending(_)
\* the elements of the set in decreasing order
SortedDedup_Descending(S) ==
  IF S = {} THEN <<>>
  ELSE LET m == CHOOSE x \in S : \A y \in S \ {x} : StrLess(y, x, 1)
       IN <<m>> \o SortedDedup_Descending(S \ {m})

RECURSIVE SortedDedup(_)
\* sort() followed by dedup(): the elements of the set in increasing order
SortedDedup(S) ==
  IF S = {} THEN <<>>
  ELSE LET m == CHOOSE x \in S : \A y \in S \ {x} : StrLess(x, y, 1)
       IN <<m>> \o SortedDedup(S \ {m})

\* the body of discover_endpoints once the school page has been read
discovered_urls(base, links) ==
  SortedDedup({ full_url(base, links[i]) :
                i \in { j \in 1..Len(links) : \E k \in Keywords : Contains(links[j], k) } })

\* the answer to the GET of the school page
SchoolResps == SendResps \cup [t : {"http"}, status : Statuses, bodyok : BOOLEAN]

discover_endpoints(resp, base, links) ==
  IF resp.t = "err"
    THEN Generic(<<"Failed to fetch school page: ">> \o SendError(base, resp.cause))
  ELSE IF ~is_success(resp.status)
    THEN Generic(<<"Failed to fetch school page. Status: ", StatusText(resp.status)>>)
  ELSE IF ~resp.bodyok
    THEN Generic(<<"Failed to read school page content: ", "error decoding response body">>)
  ELSE [ok |-> TRUE, urls |-> discovered_urls(base, links)]

(***************************************************************************)
(* Client::get_posts: the answers and their parsing                        *)
(***************************************************************************)
\* serde_json::Value: a string "str" with its text, a number "num", an
\* array "arr" with its elements, an object "obj" with the function from
\* its keys to its members, "null"; Absent is the None of a get
Val(t, v) == [t |-> t, v |-> v]

Absent == [t |-> "absent", v |-> <<>>]

\* Value::get and Map::get
get(value, key) ==
  IF value.t = "obj" /\ key \in DOMAIN value.v THEN value.v[key] ELSE Absent

\* Option::or_else
or_else(a, b) == IF a.t # "absent" THEN a ELSE b

\* .and_then(|v| v.as_str()).unwrap_or(default)
str_or(value, default) == IF value.t = "str" THEN value.v ELSE default

RECURSIVE JoinedText(_, _, _)
\* text().collect::<Vec<_>>().join(" "): the text nodes of the markup s,
\* entities decoded, with a space between two nodes that a tag separates
JoinedText(s, acc, gap) ==
  IF s = <<>> THEN acc
  ELSE IF Head(s) \in {"<p>", "</p>"} THEN JoinedText(Tail(s), acc, acc # <<>>)
  ELSE JoinedText(Tail(s),
                  acc \o (IF gap THEN <<" ">> ELSE <<>>)
                      \o <<IF Head(s) = "&amp;" THEN "&" ELSE Head(s)>>,
                  FALSE)

RECURSIVE trim(_)
\* str::trim
trim(s) ==
  IF s # <<>> /\ Head(s) = " " THEN trim(Tail(s))
  ELSE IF s # <<>> /\ s[Len(s)] = " " THEN trim(SubSeq(s, 1, Len(s) - 1))
  ELSE s

\* the trimmed text of an element or of a parsed fragment
element_text(s) == trim(JoinedText(s, <<>>, FALSE))

\* parse_posts_json, lines 784-806: the title of a post object
json_title(o) ==
  IF get(o, "html").t = "str"
    THEN IF element_text(get(o, "html").v) = <<>>
           THEN str_or(get(o, "normalized_text"), <<"Untitled Post">>)
           ELSE element_text(get(o, "html").v)
  ELSE str_or(or_else(or_else(or_else(get(o, "normalized_text"), get(o, "title")),
                              get(o, "text")),
                      get(o, "content")),
              <<"Untitled Post">>)

RECURSIVE listed_urls(_)
\* lines 860-878: the URLs of the entries of a photos or images array
listed_urls(items) ==
  IF items = <<>> THEN <<>>
  ELSE (IF Head(items).t = "str" THEN <<Head(items).v>>
        ELSE IF get(Head(items), "url").t = "str" THEN <<get(Head(items), "url").v>>
        ELSE <<>>)
       \o listed_urls(Tail(items))

\* parse_posts_json, lines 843-878: the photo URLs of a post object
json_photo_urls(o) ==
  LET original == get(o, "original_photo_url")
      thumb == get(o, "photo_url")
      single == IF original.t = "str" THEN original.v
                ELSE IF thumb.t = "str" THEN thumb.v
                ELSE <<>>
  IN (IF single # <<>> THEN <<single>> ELSE <<>>)
     \o (IF get(o, "photos").t = "arr" THEN listed_urls(get(o, "photos").v)
         ELSE IF get(o, "images").t = "arr" THEN listed_urls(get(o, "images").v)
         ELSE <<>>)

\* parse_posts_json, lines 772-891: the Post built from the object at
\* index i (from 0) of the array
json_post(o, i) ==
  [id |-> IF get(o, "id").t = "str" THEN get(o, "id").v
          ELSE IF get(o, "id").t = "num" /\ get(o, "id").v >= 0
            THEN <<ToString(get(o, "id").v)>>
          ELSE <<"post_", ToString(i)>>,
   title |-> json_title(o),
   author |-> IF get(o, "author").t = "str"
                THEN IF element_text(get(o, "author").v) = <<>>
                       THEN <<"Unknown Author">>
                       ELSE element_text(get(o, "author").v)
              ELSE str_or(or_else(get(o, "author_name"), get(o, "user")), <<"Unknown Author">>),
   date |-> str_or(or_else(or_else(get(o, "date"), get(o, "created_at")), get(o, "timestamp")),
                   <<"Unknown Date">>),
   url |-> str_or(or_else(get(o, "url"), get(o, "link")), <<>>),
   photo_urls |-> json_photo_urls(o)]

\* the array is the first member among root, "posts" and "data" that is one
posts_array_FirstArray(root) ==
  IF root.t = "arr" THEN [ok |-> TRUE, items |-> root.v]
  ELSE IF get(root, "posts").t = "arr" THEN [ok |-> TRUE, items |-> get(root, "posts").v]
  ELSE IF get(root, "data").t = "arr" THEN [ok |-> TRUE, items |-> get(root, "data").v]
  ELSE Parse(<<"Could not find posts array in JSON response">>)

\* parse_posts_json, lines 747-762: where the array of posts is
posts_array(root) ==
  IF root.t = "arr" THEN [ok |-> TRUE, items |-> root.v]
  ELSE IF get(root, "posts").t # "absent"
    THEN IF get(root, "posts").t = "arr"
           THEN [ok |-> TRUE, items |-> get(root, "posts").v]
           ELSE Parse(<<"Posts field is not an array">>)
  ELSE IF get(root, "data").t # "absent"
    THEN IF get(root, "data").t = "arr"
           THEN [ok |-> TRUE, items |-> get(root, "data").v]
           ELSE Parse(<<"Data field is not an array">>)
  ELSE Parse(<<"Could not find posts array in JSON response">>)

\* Client::parse_posts_json
parse_posts_json(body) ==
  IF body.fmt # "json"
    THEN Parse(<<"Failed to parse JSON response: ", "expected value at line 1 column 1">>)
  ELSE LET a == posts_array(body.root)
           \* the indices (from 1) of the elements that are no objects
           bad == { i \in 1..Len(a.items) : a.items[i].t # "obj" }
       IN IF ~a.ok THEN a
          ELSE IF bad # {}
            THEN Parse(<<"Post ", ToString((CHOOSE i \in bad : \A j \in bad : i <= j) - 1),
                         " is not a valid object">>)
          ELSE [ok |-> TRUE,
                posts |-> [i \in 1..Len(a.items) |-> json_post(a.items[i], i - 1)]]

\* lines 939-947 and 961-972: an href or src as it is when it starts with
\* "http", and after the part of base_url before "/schools" otherwise
resolve(base, href) ==
  IF StartsWith(href, "^http") THEN href ELSE RootDomain(base) \o href

RECURSIVE html_photo_urls_Reversed(_, _)
\* the sources of the img elements, the last one first
html_photo_urls_Reversed(imgs, base) ==
  IF imgs = <<>> THEN <<>>
  ELSE html_photo_urls_Reversed(Tail(imgs), base)
       \o (IF Head(imgs) = <<>> THEN <<>> ELSE <<resolve(base, Head(imgs)[1])>>)

RECURSIVE html_photo_urls(_, _)
\* parse_posts_html, lines 955-975: the sources of the .observation-photo
\* img elements of an observation
html_photo_urls(imgs, base) ==
  IF imgs = <<>> THEN <<>>
  ELSE (IF Head(imgs) = <<>> THEN <<>> ELSE <<resolve(base, Head(imgs)[1])>>)
       \o html_photo_urls(Tail(imgs), base)

\* parse_posts_html, lines 910-985: the Post built from an .observation
\* element when len posts have been built
html_post(obs, len, base) ==
  [id |-> IF obs.id # <<>> THEN obs.id[1] ELSE <<"post_", ToString(len)>>,
   title |-> IF obs.text # <<>> THEN element_text(obs.text[1]) ELSE <<"Untitled Post">>,
   author |-> IF obs.author # <<>> THEN element_text(obs.author[1]) ELSE <<"Unknown Author">>,
   date |-> IF obs.date # <<>> THEN element_text(obs.date[1]) ELSE <<"Unknown Date">>,
   url |-> IF obs.link = <<>> \/ obs.link[1] = <<>> THEN <<>>
           ELSE resolve(base, obs.link[1][1]),
   photo_urls |-> html_photo_urls(obs.imgs, base)]

\* Client::parse_posts_html
parse_posts_html(body, base) ==
  IF body.fmt # "html" THEN [ok |-> TRUE, posts |-> <<>>]
  ELSE [ok |-> TRUE,
        posts |-> [i \in 1..Len(body.observations) |->
                     html_post(body.observations[i], i - 1, base)]]

MaxItems == 2

\* the posts that the documents of the model encode; a member is <<>> when
\* the document leaves it out, <<x>> when it gives x
LogicalPost ==
  [a |-> [id |-> << <<"a">> >>, title |-> << <<"Nap time">> >>,
          author |-> << <<"Ms. Rivera">> >>, date |-> << <<"2023-01-15">> >>,
          url |-> << <<"https://www.transparentclassroom.com", "/posts/a">> >>,
          photos |-> << <<"https://cdn.example.net", "/1.jpg">>,
                        <<"https://cdn.example.net", "/2.jpg">> >>],
   bare |-> [id |-> <<>>, title |-> <<>>, author |-> <<>>, date |-> <<>>, url |-> <<>>,
             photos |-> <<>>],
   relative |-> [id |-> << <<"b">> >>, title |-> << <<"Painting">> >>, author |-> <<>>,
                 date |-> << <<"2023-01-16">> >>, url |-> << <<"/photos">> >>,
                 photos |-> << <<"/photos", "/3.jpg">> >>]]

\* the JSON object that gives the members of p under the keys id, title,
\* author, date, url and photos
JsonOf(p) ==
  Val("obj", [k \in { m \in {"id", "title", "author", "date", "url"} : p[m] # <<>> }
                    \cup {"photos"} |->
               IF k = "photos" THEN Val("arr", [i \in 1..Len(p.photos) |-> Val("str", p.photos[i])])
               ELSE Val("str", p[k][1])])

\* the .observation element that gives the members of p in its id
\* attribute, its .observation-text, -author and -date elements, its
\* a.observation-link and its .observation-photo img elements
HtmlOf(p) ==
  [id |-> p.id, text |-> p.title, author |-> p.author, date |-> p.date,
   link |-> IF p.url = <<>> THEN <<>> ELSE <<p.url>>,
   imgs |-> [i \in 1..Len(p.photos) |-> <<p.photos[i]>>]]

\* the elements of an array of posts: the objects of the posts above, an
\* object with a numeric id, a string
JsonItems ==
  { JsonOf(LogicalPost[k]) : k \in DOMAIN LogicalPost }
  \cup { Val("obj", [id |-> Val("num", 5), normalized_text |-> Val("str", <<"Nap time">>),
                     photos |-> Val("arr", <<Val("str", <<"https://cdn.example.net", "/1.jpg">>)>>)]),
          Val("str", <<"oops">>) }

\* the JSON documents given to the parsers: the array at the root, under
\* "posts", under "data", under both, behind a "posts" member that is
\* null, or nowhere
JsonBodies ==
  LET Lists == UNION { [1..n -> JsonItems] : n \in 0..MaxItems }
  IN [fmt : {"json"},
      root : { Val("arr", l) : l \in Lists }
             \cup { Val("obj", [posts |-> Val("arr", l)]) : l \in Lists }
             \cup { Val("obj", [data |-> Val("arr", l)]) : l \in Lists }
             \cup { Val("obj", [posts |-> Val("arr", <<>>), data |-> Val("arr", l)]) : l \in Lists }
             \cup { Val("obj", [posts |-> Val("null", <<>>), data |-> Val("arr", l)]) : l \in Lists }
             \cup { Val("obj", [data |-> Val("num", 1)]), Val("obj", [total |-> Val("num", 0)]),
                    Val("num", 3) }]

\* the .observation elements: the elements of the posts above, and one
\* with padded text in a paragraph, an entity, an empty date, a link
\* without href and an img without src
Observations ==
  { HtmlOf(LogicalPost[k]) : k \in DOMAIN LogicalPost }
  \cup { [id |-> <<>>, text |-> << <<"<p>", " ", "Nap time", " ", "</p>">> >>,
           author |-> << <<"Tom ", "&amp;", " Ana">> >>, date |-> << <<>> >>,
           link |-> << <<>> >>,
           imgs |-> << <<>>, << <<"https://cdn.example.net", "/2.jpg">> >> >>] }

\* the HTML documents given to the parsers
HtmlBodies ==
  [fmt : {"html"}, observations : UNION { [1..n -> Observations] : n \in 0..MaxItems }]

\* the post objects whose title and photo members vary: every member is
\* left out, a string (for original_photo_url also the empty one) or
\* something else; photos is an array of bare strings and of objects with
\* and without "url"
PostObjects ==
  LET ObjectOf(c) == Val("obj", [k \in { m \in DOMAIN c : c[m] # Absent } |-> c[k]])
      Entries == { Val("str", <<"https://cdn.example.net", "/1.jpg">>),
                   Val("obj", [url |-> Val("str", <<"https://cdn.example.net", "/2.jpg">>)]),
                   Val("obj", [caption |-> Val("str", <<"Nap time">>)]) }
  IN { ObjectOf(c) :
         c \in [html : {Absent, Val("str", <<"<p>", " ", "</p>">>),
                        Val("str", <<"<p>", "Nap time", "</p>">>)},
                normalized_text : {Absent, Val("null", <<>>), Val("str", <<"Circle time">>)},
                title : {Absent, Val("str", <<"Painting">>)},
                text : {Absent, Val("str", <<"Lunch">>)},
                content : {Absent, Val("str", <<"Story">>)}] }
     \cup
     { ObjectOf(c) :
         c \in [original_photo_url : {Absent, Val("null", <<>>), Val("str", <<>>),
                                      Val("str", <<"https://cdn.example.net", "/original.jpg">>)},
                photo_url : {Absent, Val("str", <<"https://cdn.example.net", "/thumb.jpg">>)},
                photos : {Absent, Val("num", 0)}
                         \cup { Val("arr", l) : l \in UNION { [1..n -> Entries] : n \in 0..MaxItems } },
                images : {Absent, Val("arr", <<Val("str", <<"https://cdn.example.net", "/3.jpg">>)>>)}] }

\* the post lists that the answers to get_posts encode
ListingPosts ==
  { <<>>, <<LogicalPost.bare>>, <<LogicalPost.a>>, <<LogicalPost.a, LogicalPost.bare>> }

\* the listing bodies: each list as a JSON array and as an HTML document,
\* and a text that is neither
ListingBodies ==
  { [fmt |-> "json", root |-> Val("arr", [i \in 1..Len(l) |-> JsonOf(l[i])])] : l \in ListingPosts }
  \cup { [fmt |-> "html", observations |-> [i \in 1..Len(l) |-> HtmlOf(l[i])]] : l \in ListingPosts }
  \cup { [fmt |-> "text"] }

\* the body of an answer that is not read
NoBody == [fmt |-> "html", observations |-> <<>>]

ListingResps ==
  SendResps
  \cup [t : {"http"}, status : {st \in Statuses : ~is_success(st)}, bodyok : {TRUE}, body : {NoBody}]
  \cup [t : {"http"}, status : {st \in Statuses : is_success(st)}, bodyok : {TRUE}, body : ListingBodies]
  \cup [t : {"http"}, status : {st \in Statuses : is_success(st)}, bodyok : {FALSE}, body : {NoBody}]

\* Ok(resp) with resp.status().is_success()
succeeded_Only200(response) == response.t = "http" /\ response.status = 200

succeeded(response) == response.t = "http" /\ is_success(response.status)

\* Client::get_posts, lines 680-692
current_url(base, page, response) ==
  IF succeeded(response) THEN primary_url(base, page)
  ELSE IF response.t = "http" THEN fallback_urls(base, page)[7]
  ELSE primary_url(base, page)

\* Client::get_posts, lines 719-724
parser_for(url) == IF Contains(url, ".json") THEN "json" ELSE "html"

\* the same with an empty list where no URL was answered with 2xx
get_posts_tail_EmptyOnFailure(base, page, response) ==
  IF response.t = "err" \/ ~is_success(response.status)
    THEN [ok |-> TRUE, posts |-> <<>>]
  ELSE IF ~response.bodyok
    THEN Generic(<<"Failed to read posts page content: ", "error decoding response body">>)
  ELSE IF parser_for(current_url(base, page, response)) = "json"
    THEN parse_posts_json(response.body)
  ELSE parse_posts_html(response.body, base)

\* Client::get_posts, lines 694-724: the value returned for the final response
get_posts_tail(base, page, response) ==
  IF response.t = "err"
    THEN Generic(<<"Failed to connect to Transparent Classroom for fetching posts. ",
                   "Please check your internet connection and try again.">>)
  ELSE IF ~is_success(response.status)
    THEN Generic(<<"Failed to fetch posts from Transparent Classroom. Status: ",
                   StatusText(response.status),
                   ". This might indicate an authentication or permissions issue.">>)
  ELSE IF ~response.bodyok
    THEN Generic(<<"Failed to read posts page content: ", "error decoding response body">>)
  ELSE IF parser_for(current_url(base, page, response)) = "json"
    THEN parse_posts_json(response.body)
  ELSE parse_posts_html(response.body, base)

(***************************************************************************)
(* Client::crawl_all_posts                                                 *)
(***************************************************************************)
\* Vec::extend, line 516
extend_Front(all, posts) == posts \o all

extend(all, posts) == all \o posts

\* lines 508-517, one round of the loop: get_posts has returned r and the
\* posts of the earlier pages are in all
crawl_loop_ErrEndsData(all, r) ==
  IF ~r.ok \/ r.posts = <<>> THEN [done |-> TRUE, ret |-> [ok |-> TRUE, posts |-> all], all |-> all]
  ELSE [done |-> FALSE, ret |-> NoResult, all |-> extend(all, r.posts)]

crawl_loop(all, r) ==
  IF ~r.ok THEN [done |-> TRUE, ret |-> r, all |-> all]
  ELSE IF r.posts = <<>> THEN [done |-> TRUE, ret |-> [ok |-> TRUE, posts |-> all], all |-> all]
  ELSE [done |-> FALSE, ret |-> NoResult, all |-> extend(all, r.posts)]

(***************************************************************************)
(* Client::download_photo: posts, file names and files                     *)
(***************************************************************************)
\* Config.school_lat and school_lng as Display shows them, school_keywords
SchoolLat == "41.9032"
SchoolLng == "-87.6663"
SchoolKeywords == "school, chicago"

PhotoUrl(n) == <<"https://cdn.example.net", "/img/", n>>

\* the posts given to download_photo: one with two photos, one with one
\* photo whose id is the other's id followed by "_0", one without photos
PhotoPosts ==
  { [id |-> <<"a">>, title |-> <<"Field trip">>, author |-> <<"Ms. Rivera">>,
     date |-> <<"2023-01-15">>, url |-> <<"https://www.transparentclassroom.com", "/posts/a">>,
     photo_urls |-> <<PhotoUrl("1"), PhotoUrl("2")>>],
    [id |-> <<"a", "_", "0">>, title |-> <<"Painting">>, author |-> <<"Mr. Chen">>,
     date |-> <<"Unknown Date">>, url |-> <<"https://www.transparentclassroom.com", "/posts/a_0">>,
     photo_urls |-> <<PhotoUrl("3")>>],
    [id |-> <<"post_", "0">>, title |-> <<"Untitled Post">>, author |-> <<"Unknown Author">>,
     date |-> <<"next week">>, url |-> <<"https://www.transparentclassroom.com", "/posts">>,
     photo_urls |-> <<>>] }

\* output_dir
OutputDir == <<"photos">>

\* Path::join
join(dir, name) == dir \o <<"/">> \o name

\* the part of a file-name fragment before its last "."
FileStem(f) == IF f = "_max.jpg" THEN "_max" ELSE f

\* Path::with_extension: the last fragment of path holds the extension
with_extension(path, ext) ==
  SubSeq(path, 1, Len(path) - 1) \o <<FileStem(path[Len(path)]), ".", ext>>

\* photo_already_exists_for_index, lines 1010-1014
expected_filename_Indexed(post, index) == post.id \o <<"_", ToString(index), "_max.jpg">>

expected_filename(post, index) ==
  IF Len(post.photo_urls) > 1 THEN post.id \o <<"_", ToString(index), "_max.jpg">>
  ELSE post.id \o <<"_max.jpg">>

\* download_photo, lines 1087-1091
output_filename_Indexed(post, index) == post.id \o <<"_", ToString(index), "_max.jpg">>

output_filename(post, index) ==
  IF Len(post.photo_urls) > 1 THEN post.id \o <<"_", ToString(index), "_max.jpg">>
  ELSE post.id \o <<"_max.jpg">>

\* Path::exists for a file of the output directory
\* no file is ever found
exists_Never(files, path) == FALSE

exists(files, path) == \E f \in files : f.path = path

FileAt(files, path) == CHOOSE f \in files : f.path = path

\* File::create + write_all, fs::write: the file at file.path is replaced
write(files, file) == { f \in files : f.path # file.path } \cup {file}

\* the answer to the GET of a photo URL
PhotoResps ==
  SendResps
  \cup [t : {"http"}, status : {st \in Statuses : ~is_success(st)}, bodyok : {TRUE}, bytes : {"none"}]
  \cup [t : {"http"}, status : {st \in Statuses : is_success(st)}, bodyok : {TRUE}, bytes : {"jpeg1", "html2"}]
  \cup [t : {"http"}, status : {st \in Statuses : is_success(st)}, bodyok : {FALSE}, bytes : {"none"}]

\* the file-system call of lines 1116-1155 that fails, "ok" if none does
IoOutcomes == {"ok", "create", "write", "stamp", "sidecar"}

\* Client::parse_date_to_timestamp: is the result Some
parse_date_to_timestamp(date) == date \in {<<"2023-01-15">>, <<"2023-01-15T09:30:00Z">>}


\* embed_metadata, lines 1143-1153
metadata_content_NoKeywords(post) ==
  <<"Title: ">> \o post.title \o <<"\nAuthor: ">> \o post.author \o <<"\nDate: ">> \o post.date
  \o <<"\nURL: ">> \o post.url \o <<"\nPost ID: ">> \o post.id
  \o <<"\nSchool Location: ", SchoolLat, ", ", SchoolLng, "\n">>

metadata_content(post) ==
  <<"Title: ">> \o post.title \o <<"\nAuthor: ">> \o post.author \o <<"\nDate: ">> \o post.date
  \o <<"\nURL: ">> \o post.url \o <<"\nPost ID: ">> \o post.id
  \o <<"\nSchool Location: ", SchoolLat, ", ", SchoolLng, " (", SchoolKeywords, ")\n">>

\* Client::embed_metadata; io names the file-system call that fails
embed_metadata(post, photo_path, io, files) ==
  IF post.date # <<>> /\ post.date # <<"Unknown Date">> /\ parse_date_to_timestamp(post.date)
     /\ io = "stamp"
    THEN [ret |-> Io(<<"No such file or directory (os error 2)">>), files |-> files]
  ELSE IF io = "sidecar"
    THEN [ret |-> Io(<<"No space left on device (os error 28)">>), files |-> files]
  ELSE [ret |-> Ok,
        files |-> write(files, [path |-> with_extension(photo_path, "metadata.txt"),
                                k |-> "text", text |-> metadata_content(post)])]

\* Client::download_photo, lines 1046-1080: the checks before the download.
\* dir tells whether the output directory exists, mk whether create_dir_all
\* succeeds
download_photo_start_DirFirst(post, index, dir, files, mk) ==
  LET expected == join(OutputDir, expected_filename(post, index))
  IN IF ~dir /\ ~mk
       THEN [done |-> TRUE, dir |-> FALSE, expected |-> <<>>,
             ret |-> Io(<<"Permission denied (os error 13)">>)]
     ELSE IF post.photo_urls = <<>>
       THEN [done |-> TRUE, dir |-> TRUE, expected |-> <<>>,
             ret |-> Generic(<<"Post ">> \o post.id \o <<" has no photos to download">>)]
     ELSE IF index >= Len(post.photo_urls)
       THEN [done |-> TRUE, dir |-> TRUE, expected |-> <<>>,
             ret |-> Generic(<<"Photo index ", ToString(index), " out of range for post with ",
                               ToString(Len(post.photo_urls)), " photos">>)]
     ELSE IF exists(files, expected)
       THEN [done |-> TRUE, dir |-> TRUE, expected |-> expected,
             ret |-> [ok |-> TRUE, path |-> expected]]
     ELSE [done |-> FALSE, dir |-> TRUE, expected |-> expected, ret |-> NoResult]

download_photo_start(post, index, dir, files, mk) ==
  LET expected == join(OutputDir, expected_filename(post, index))
  IN IF post.photo_urls = <<>>
       THEN [done |-> TRUE, dir |-> dir, expected |-> <<>>,
             ret |-> Generic(<<"Post ">> \o post.id \o <<" has no photos to download">>)]
     ELSE IF index >= Len(post.photo_urls)
       THEN [done |-> TRUE, dir |-> dir, expected |-> <<>>,
             ret |-> Generic(<<"Photo index ", ToString(index), " out of range for post with ",
                               ToString(Len(post.photo_urls)), " photos">>)]
     ELSE IF ~dir /\ ~mk
       THEN [done |-> TRUE, dir |-> FALSE, expected |-> <<>>,
             ret |-> Io(<<"Permission denied (os error 13)">>)]
     ELSE IF exists(files, expected)
       THEN [done |-> TRUE, dir |-> TRUE, expected |-> expected,
             ret |-> [ok |-> TRUE, path |-> expected]]
     ELSE [done |-> FALSE, dir |-> TRUE, expected |-> expected, ret |-> NoResult]

\* Client::download_photo, lines 1083-1125: the download, the writing of
\* the file and of its metadata
download_photo_fetch(post, index, resp, io, files) ==
  LET path == join(OutputDir, output_filename(post, index))
      url == post.photo_urls[index + 1]
      photo(complete) ==
        write(files, [path |-> path, k |-> "photo", bytes |-> resp.bytes,
                      complete |-> complete, from |-> url])
  IN IF resp.t = "err"
       THEN [ret |-> Generic(<<"Failed to download photo: ">> \o SendError(url, resp.cause)),
             files |-> files]
     ELSE IF ~is_success(resp.status)
       THEN [ret |-> Generic(<<"Failed to download photo. Status: ", StatusText(resp.status)>>),
             files |-> files]
     ELSE IF ~resp.bodyok
       THEN [ret |-> Generic(<<"Failed to read photo bytes: ", "error decoding response body">>),
             files |-> files]
     ELSE IF io = "create"
       THEN [ret |-> Io(<<"Permission denied (os error 13)">>), files |-> files]
     ELSE IF io = "write"
       THEN [ret |-> Io(<<"No space left on device (os error 28)">>), files |-> photo(FALSE)]
     ELSE LET m == embed_metadata(post, path, io, photo(TRUE))
          IN [ret |-> IF m.ret.ok THEN [ok |-> TRUE, path |-> path] ELSE m.ret,
              files |-> m.files]

\* Client::download_all_photos, lines 1242-1257, one round of the loop:
\* download_photo(post, i) has returned r, and the post has n photos
download_all_loop_Abort(paths, i, n, r) ==
  IF ~r.ok THEN [paths |-> paths, done |-> TRUE, ret |-> r]
  ELSE [paths |-> Append(paths, r.path), done |-> i + 1 >= n,
        ret |-> IF i + 1 >= n THEN [ok |-> TRUE, paths |-> Append(paths, r.path)] ELSE NoResult]

download_all_loop(paths, i, n, r) ==
  LET ps == IF r.ok THEN Append(paths, r.path) ELSE paths
  IN [paths |-> ps, done |-> i + 1 >= n,
      ret |-> IF i + 1 >= n THEN [ok |-> TRUE, paths |-> ps] ELSE NoResult]

(***************************************************************************)
(* cache.rs: read_cache and write_cache.  A SystemTime is the time since   *)
(* UNIX_EPOCH in seconds and nanoseconds; the clock is read by each call   *)
(* and need not run forward between calls.                                 *)
(***************************************************************************)
MaxSecs == 2

MaxAge == 1

Times == [secs : 0..MaxSecs, nanos : {0, 500000000}]

Payloads == {"posts1", "posts2"}

CachePath == <<"cache", "/", "posts.json">>

\* SystemTime's Ord: a <= b
TimeLeq(a, b) == a.secs < b.secs \/ (a.secs = b.secs /\ a.nanos <= b.nanos)

\* SystemTime::duration_since: the time from earlier to later, an error
\* when earlier is after later
duration_since(later, earlier) ==
  IF ~TimeLeq(earlier, later) THEN [ok |-> FALSE]
  ELSE IF later.nanos >= earlier.nanos
    THEN [ok |-> TRUE, secs |-> later.secs - earlier.secs,
          nanos |-> later.nanos - earlier.nanos]
  ELSE [ok |-> TRUE, secs |-> later.secs - earlier.secs - 1,
        nanos |-> later.nanos + 1000000000 - earlier.nanos]

\* Duration::from_secs
from_secs(secs) == [secs |-> secs, nanos |-> 0]

\* Duration's Ord: a > b
DurationGt(a, b) == a.secs > b.secs \/ (a.secs = b.secs /\ a.nanos > b.nanos)

\* serde's Serialize and Deserialize for SystemTime
serialize_time(t) == [secs_since_epoch |-> t.secs, nanos_since_epoch |-> t.nanos]

deserialize_time(j) == [secs |-> j.secs_since_epoch, nanos |-> j.nanos_since_epoch]

\* Ok(None) and Ok(Some(v))
None == [ok |-> TRUE, some |-> FALSE]

Some(v) == [ok |-> TRUE, some |-> TRUE, data |-> v]

\* read_cache with an entry that expires when its age reaches max_age
read_cache_ExpiresAtMaxAge(files, path, now, max_age_secs) ==
  IF ~exists(files, path) THEN None
  ELSE IF FileAt(files, path).k # "cache"
    THEN Generic(<<"Failed to parse cache: ", "EOF while parsing a value">>)
  ELSE LET cache_data == [timestamp |-> deserialize_time(FileAt(files, path).timestamp),
                          payload |-> FileAt(files, path).payload]
           age == duration_since(now, cache_data.timestamp)
       IN IF age.ok /\ ~DurationGt(from_secs(max_age_secs), age) THEN None
          ELSE IF age.ok THEN Some(cache_data)
          ELSE None

\* read_cache, with the clock at now
read_cache(files, path, now, max_age_secs) ==
  IF ~exists(files, path) THEN None
  ELSE IF FileAt(files, path).k # "cache"
    THEN Generic(<<"Failed to parse cache: ", "EOF while parsing a value">>)
  ELSE LET cache_data == [timestamp |-> deserialize_time(FileAt(files, path).timestamp),
                          payload |-> FileAt(files, path).payload]
           age == duration_since(now, cache_data.timestamp)
       IN IF age.ok /\ DurationGt(age, from_secs(max_age_secs)) THEN None
          ELSE IF age.ok THEN Some(cache_data)
          ELSE None

\* what can go wrong in write_cache: nothing, File::create, the serializer
CacheIoOutcomes == {"ok", "create", "serialize"}

\* write_cache, with the clock at now: the result and the files afterwards
write_cache(files, path, data, now, io) ==
  LET cache_data == [timestamp |-> now, payload |-> data]
  IN IF io = "create"
       THEN [res |-> Io(<<"Permission denied (os error 13)">>), files |-> files]
     ELSE IF io = "serialize"
       THEN [res |-> Generic(<<"Failed to write cache: ", "key must be a string">>),
             files |-> write(files, [path |-> path, k |-> "text", text |-> <<>>])]
     ELSE [res |-> Ok,
           files |-> write(files, [path |-> path, k |-> "cache",
                                   timestamp |-> serialize_time(cache_data.timestamp),
                                   payload |-> cache_data.payload])]

(***************************************************************************)
(* State                                                                   *)
(***************************************************************************)
VARIABLES
  base_url,     \* Client.base_url
  mock_mode,    \* Client.mock_mode
  op,           \* the method being executed, or executed last
  pc,           \* the position inside that method, "idle" between calls,
                \* "panicked" when the thread has panicked
  reqs,         \* the requests the call has issued so far, in order
  ret,          \* the value the last call returned
  mock_before,  \* mock_mode when the call started
  api_resp,     \* login: the answer to the API probe
  api_result,   \* login: api_result
  signin_resp,  \* login_web_form: the answer to the sign-in page GET
  html,         \* login_web_form: the sign-in page being searched for a token
  csrf_token,   \* login_web_form: csrf_token
  post_resp,    \* login_web_form: the answer to the login POST
  web_result,   \* login: web_result
  page,         \* get_posts: page
  primary_resp, \* get_posts: the answer to the primary URL
  response,     \* get_posts: response
  fb_idx,       \* get_posts: the index of the next fallback URL
  discovered,   \* get_posts: discovered_urls
  d_idx,        \* get_posts: the index of the next discovered URL
  parser,       \* get_posts: the parser the body was given to
  answered,     \* get_posts: some listing URL tried so far got an HTTP response
  crawl_on,     \* crawl_all_posts is executing
  crawl_page,   \* crawl_all_posts: page
  all_posts,    \* crawl_all_posts: all_posts
  pages_req,    \* crawl_all_posts: the pages passed to get_posts so far, in order
  page_results, \* crawl_all_posts: what those get_posts calls returned, in order
  crawl_ret,    \* the value the last crawl_all_posts call returned
  fs_dir,       \* file system: the output directory exists
  fs_files,     \* file system: the files of the output directory, by path
  dl_post,      \* download_photo: post
  photo_index,  \* download_photo: photo_index
  expected_path, \* photo_already_exists_for_index: expected_path
  output_path,  \* download_photo: output_path
  photo_resp,   \* download_photo: the answer to the GET of the photo URL
  racers,       \* the two download_photo calls that run at the same time, if any
  da_on,        \* download_all_photos is executing
  da_i,         \* download_all_photos: i
  downloaded_paths, \* download_all_photos: downloaded_paths
  attempts,     \* download_all_photos: the download_photo calls made so far, in order
  da_ret,       \* the value the last download_all_photos call returned
  fn_in,        \* the arguments of the last call of a function that is called on its own
  fn_out        \* the value that call returned

login_vars == <<api_resp, api_result, signin_resp, html, csrf_token, post_resp, web_result>>

posts_vars == <<page, primary_resp, response, fb_idx, discovered, d_idx, parser, answered>>

\* what one round of the crawl loop updates
crawl_loop_vars == <<crawl_on, crawl_page, all_posts, page_results, crawl_ret>>

crawl_vars == <<crawl_loop_vars, pages_req>>

fs_vars == <<fs_dir, fs_files>>

\* what one round of the download_all_photos loop updates
da_loop_vars == <<da_on, da_i, downloaded_paths, attempts, da_ret>>

dl_vars == <<dl_post, photo_index, expected_path, output_path, photo_resp, racers, da_loop_vars>>

\* the functions that are called on their own
pure_vars == <<fn_in, fn_out>>

vars ==
  <<base_url, mock_mode, op, pc, reqs, ret, mock_before, login_vars, posts_vars, crawl_vars,
    fs_vars, dl_vars, pure_vars>>

Req(tag, url) == [tag |-> tag, url |-> url]

\* a GET of a listing URL, with the arm of the match it was answered in
Asked(tag, url, resp) == [tag |-> tag, url |-> url, ok |-> succeeded(resp)]

\* Client::new and Client::new_with_base_url
Init ==
  /\ base_url \in BaseUrls
  /\ mock_mode = FALSE
  /\ op = "none"
  /\ pc = "idle"
  /\ reqs = <<>>
  /\ ret = NoResult
  /\ fn_in = <<>>
  /\ fn_out = NoResult
  /\ mock_before = FALSE
  /\ api_resp = NoResp
  /\ api_result = NoResult
  /\ signin_resp = NoResp
  /\ html = <<>>
  /\ csrf_token = "none"
  /\ post_resp = NoResp
  /\ web_result = NoResult
  /\ page = 0
  /\ primary_resp = NoResp
  /\ response = NoResp
  /\ fb_idx = 0
  /\ discovered = <<>>
  /\ d_idx = 0
  /\ parser = "none"
  /\ answered = FALSE
  /\ crawl_on = FALSE
  /\ crawl_page = 0
  /\ all_posts = <<>>
  /\ pages_req = <<>>
  /\ page_results = <<>>
  /\ crawl_ret = NoResult
  /\ fs_dir = FALSE
  /\ fs_files = {}
  /\ dl_post = NoPost
  /\ photo_index = 0
  /\ expected_path = <<>>
  /\ output_path = <<>>
  /\ photo_resp = NoResp
  /\ racers = <<>>
  /\ da_on = FALSE
  /\ da_i = 0
  /\ downloaded_paths = <<>>
  /\ attempts = <<>>
  /\ da_ret = NoResult

\* the locals of a call that has returned are gone when the next call starts
PureLocalsGone ==
  /\ fn_in' = <<>>
  /\ fn_out' = NoResult

LoginLocalsGone ==
  /\ api_resp' = NoResp
  /\ api_result' = NoResult
  /\ signin_resp' = NoResp
  /\ html' = <<>>
  /\ csrf_token' = "none"
  /\ post_resp' = NoResp
  /\ web_result' = NoResult

PostsLocalsGone ==
  /\ page' = 0
  /\ primary_resp' = NoResp
  /\ response' = NoResp
  /\ fb_idx' = 0
  /\ discovered' = <<>>
  /\ d_idx' = 0
  /\ parser' = "none"
  /\ answered' = FALSE

CrawlLocalsGone ==
  /\ crawl_on' = FALSE
  /\ crawl_page' = 0
  /\ all_posts' = <<>>
  /\ pages_req' = <<>>
  /\ page_results' = <<>>
  /\ crawl_ret' = NoResult

DownloadAllLocalsGone ==
  /\ da_on' = FALSE
  /\ da_i' = 0
  /\ downloaded_paths' = <<>>
  /\ attempts' = <<>>
  /\ da_ret' = NoResult

DownloadLocalsGone ==
  /\ dl_post' = NoPost
  /\ photo_index' = 0
  /\ expected_path' = <<>>
  /\ output_path' = <<>>
  /\ photo_resp' = NoResp
  /\ racers' = <<>>
  /\ da_on' = FALSE
  /\ da_i' = 0
  /\ downloaded_paths' = <<>>
  /\ attempts' = <<>>
  /\ da_ret' = NoResult

\* Client::login, lines 120-131: both strategies have failed or the web
\* form has succeeded
LoginReturn(web) ==
  LET tail == login_tail(base_url, mock_mode, api_result, web)
  IN /\ web_result' = web
     /\ ret' = tail.res
     /\ mock_mode' = tail.mock
     /\ pc' = "idle"

\* Client::login up to the answer to the API probe
LoginApi(resp) ==
  /\ pc = "idle"
  /\ op' = "login"
  /\ mock_before' = mock_mode
  /\ reqs' = <<Req("api", api_url(base_url))>>
  /\ api_resp' = resp
  /\ api_result' = login_api_basic_auth(base_url, resp)
  /\ signin_resp' = NoResp
  /\ html' = <<>>
  /\ csrf_token' = "none"
  /\ post_resp' = NoResp
  /\ web_result' = NoResult
  /\ IF api_result'.ok
       THEN ret' = Ok /\ pc' = "idle"
       ELSE ret' = NoResult /\ pc' = "login_signin"
  /\ PostsLocalsGone
  /\ CrawlLocalsGone
  /\ DownloadLocalsGone
  /\ PureLocalsGone
  /\ UNCHANGED <<base_url, mock_mode, fs_vars>>

\* Client::login_web_form: the sign-in page GET and the token extraction
LoginSignin(resp, doc) ==
  /\ pc = "login_signin"
  /\ doc = <<>> \/ (resp.t = "http" /\ is_success(resp.status) /\ resp.bodyok)
  /\ reqs' = Append(reqs, Req("signin_get", sign_in_url(base_url)))
  /\ signin_resp' = resp
  /\ LET r == signin_page(base_url, resp, doc)
     IN IF r.ok
          THEN /\ csrf_token' = r.tok
               /\ html' = <<>>
               /\ pc' = "login_post"
               /\ UNCHANGED <<web_result, ret, mock_mode>>
          ELSE /\ html' = doc
               /\ LoginReturn(r)
               /\ UNCHANGED csrf_token
  /\ UNCHANGED <<base_url, fn_in, fn_out, op, mock_before, api_resp, api_result, post_resp, posts_vars,
                 crawl_vars, fs_vars, dl_vars>>

\* Client::login_web_form: the login POST and the reading of its answer
LoginPost(resp) ==
  /\ pc = "login_post"
  /\ reqs' = Append(reqs, Req("signin_post", post_url(base_url)))
  /\ post_resp' = resp
  /\ LET r == IF redirected(resp) THEN Ok ELSE post_outcome(base_url, resp)
     IN IF redirected(resp) /\ resp.loc # "opaque"
          THEN pc' = "login_redirect" /\ UNCHANGED <<web_result, ret, mock_mode>>
        ELSE IF ~r.ok /\ r.kind = "panic"
          THEN pc' = "panicked" /\ UNCHANGED <<web_result, ret, mock_mode>>
        ELSE LoginReturn(r)
  /\ UNCHANGED <<base_url, fn_in, fn_out, op, mock_before, api_resp, api_result, signin_resp, html, csrf_token,
                 posts_vars, crawl_vars, fs_vars, dl_vars>>

\* Client::login_web_form: the GET of the redirect target, whose outcome is
\* only logged
LoginRedirect(resp) ==
  /\ pc = "login_redirect"
  /\ reqs' = Append(reqs, Req("redirect", LocationUrl(base_url, post_resp.loc)))
  /\ LoginReturn(Ok)
  /\ UNCHANGED <<base_url, fn_in, fn_out, op, mock_before, api_resp, api_result, signin_resp, html,
                 csrf_token, post_resp, posts_vars, crawl_vars, fs_vars, dl_vars>>

\* Client::get_posts, lines 680-724: the final response is known
GetPostsValue(p, final) ==
  /\ response' = final
  /\ ret' = get_posts_tail(base_url, p, final)
  /\ parser' = IF succeeded(final) /\ final.bodyok
                 THEN parser_for(current_url(base_url, p, final))
                 ELSE "none"

\* Client::crawl_all_posts, lines 508-521: get_posts has returned r
CrawlResume(r) ==
  LET c == crawl_loop(all_posts, r)
  IN /\ page_results' = Append(page_results, r)
     /\ all_posts' = c.all
     /\ crawl_ret' = c.ret
     /\ crawl_on' = ~c.done
     /\ crawl_page' = IF c.done THEN crawl_page ELSE crawl_page + 1
     /\ pc' = IF c.done THEN "idle" ELSE "crawl_call"

\* get_posts returns, to crawl_all_posts or to the user of the client
GetPostsReturn(p, final) ==
  /\ GetPostsValue(p, final)
  /\ IF crawl_on
       THEN CrawlResume(get_posts_tail(base_url, p, final))
       ELSE pc' = "idle" /\ UNCHANGED crawl_loop_vars

\* Client::get_posts, lines 543-625: up to the answer to the primary URL
GetPostsEnter(p, resp) ==
  /\ page' = p
  /\ primary_resp' = resp
  /\ reqs' = <<Asked("primary", primary_url(base_url, p), resp)>>
  /\ answered' = (resp.t = "http")
  /\ discovered' = <<>>
  /\ d_idx' = 0
  /\ fb_idx' = IF succeeded(resp) THEN 0 ELSE 1
  /\ LoginLocalsGone
  /\ DownloadLocalsGone
  /\ PureLocalsGone
  /\ UNCHANGED <<base_url, mock_mode, mock_before, fs_vars>>

\* the primary URL has failed: on to the fallback loop
GetPostsGoOn(resp) ==
  /\ response' = resp
  /\ parser' = "none"
  /\ ret' = NoResult
  /\ pc' = "gp_fallback"

\* Client::get_posts called by the user of the client
GetPrimary(p, resp) ==
  /\ pc = "idle"
  /\ op' = "get_posts"
  /\ GetPostsEnter(p, resp)
  /\ IF succeeded(resp)
       THEN GetPostsValue(p, resp) /\ pc' = "idle"
       ELSE GetPostsGoOn(resp)
  /\ CrawlLocalsGone

\* Client::get_posts, lines 627-649: one round of the fallback loop
GetFallback(resp) ==
  /\ pc = "gp_fallback"
  /\ reqs' = Append(reqs, Asked("fallback", fallback_urls(base_url, page)[fb_idx], resp))
  /\ answered' = (answered \/ resp.t = "http")
  /\ IF succeeded(resp)
       THEN GetPostsReturn(page, resp) /\ UNCHANGED fb_idx
       ELSE /\ fb_idx' = fb_idx + 1
            /\ pc' = IF fb_idx < 7 THEN "gp_fallback" ELSE "gp_discover"
            /\ UNCHANGED <<response, ret, parser, crawl_loop_vars>>
  /\ UNCHANGED <<base_url, fn_in, fn_out, mock_mode, mock_before, op, page, primary_resp, discovered, d_idx,
                 login_vars, pages_req, fs_vars, dl_vars>>

\* Client::get_posts, lines 652-655: endpoint discovery
GetDiscover(resp, links) ==
  /\ pc = "gp_discover"
  /\ links = <<>> \/ (resp.t = "http" /\ is_success(resp.status) /\ resp.bodyok)
  /\ reqs' = Append(reqs, Req("school", base_url))
  /\ LET d == discover_endpoints(resp, base_url, links)
     IN IF d.ok /\ d.urls # <<>>
          THEN /\ discovered' = d.urls
               /\ d_idx' = 1
               /\ pc' = "gp_discovered"
               /\ UNCHANGED <<response, ret, parser, crawl_loop_vars>>
          ELSE /\ GetPostsReturn(page, response)
               /\ UNCHANGED <<discovered, d_idx>>
  /\ UNCHANGED <<base_url, fn_in, fn_out, mock_mode, mock_before, op, page, primary_resp, fb_idx, answered,
                 login_vars, pages_req, fs_vars, dl_vars>>

\* Client::get_posts, lines 655-675: one round of the discovered-URL loop
GetDiscovered(resp) ==
  /\ pc = "gp_discovered"
  /\ reqs' = Append(reqs, Asked("discovered", discovered[d_idx], resp))
  /\ answered' = (answered \/ resp.t = "http")
  /\ IF succeeded(resp)
       THEN GetPostsReturn(page, resp) /\ UNCHANGED d_idx
       ELSE IF d_idx < Len(discovered)
         THEN d_idx' = d_idx + 1 /\ UNCHANGED <<response, ret, parser, pc, crawl_loop_vars>>
       ELSE GetPostsReturn(page, response) /\ UNCHANGED d_idx
  /\ UNCHANGED <<base_url, fn_in, fn_out, mock_mode, mock_before, op, page, primary_resp, fb_idx, discovered,
                 login_vars, pages_req, fs_vars, dl_vars>>

\* Client::crawl_all_posts, lines 500-504: the crawl starts
CrawlStart ==
  /\ pc = "idle"
  /\ op' = "crawl_all_posts"
  /\ pc' = "crawl_call"
  /\ crawl_on' = TRUE
  /\ crawl_page' = 1
  /\ all_posts' = <<>>
  /\ pages_req' = <<>>
  /\ page_results' = <<>>
  /\ crawl_ret' = NoResult
  /\ reqs' = <<>>
  /\ ret' = NoResult
  /\ LoginLocalsGone
  /\ PostsLocalsGone
  /\ DownloadLocalsGone
  /\ PureLocalsGone
  /\ UNCHANGED <<base_url, mock_mode, mock_before, fs_vars>>

\* Client::crawl_all_posts, line 508: get_posts(page), up to the answer to
\* the primary URL
CrawlGetPrimary(resp) ==
  /\ pc = "crawl_call"
  /\ crawl_page <= MaxCrawl
  /\ pages_req' = Append(pages_req, crawl_page)
  /\ GetPostsEnter(crawl_page, resp)
  /\ IF succeeded(resp)
       THEN GetPostsReturn(crawl_page, resp)
       ELSE GetPostsGoOn(resp) /\ UNCHANGED crawl_loop_vars
  /\ UNCHANGED op

\* Client::download_all_photos, lines 1243-1250: download_photo has
\* returned r
DownloadAllResume(r) ==
  LET d == download_all_loop(downloaded_paths, da_i, Len(dl_post.photo_urls), r)
  IN /\ attempts' = Append(attempts, [index |-> da_i, ret |-> r])
     /\ downloaded_paths' = d.paths
     /\ da_i' = da_i + 1
     /\ da_ret' = d.ret
     /\ da_on' = ~d.done
     /\ pc' = IF d.done THEN "idle" ELSE "da_call"

\* download_photo returns, to download_all_photos or to the user of the
\* client
DownloadReturn(r) ==
  /\ ret' = r
  /\ IF da_on
       THEN DownloadAllResume(r)
       ELSE pc' = "idle" /\ UNCHANGED da_loop_vars

\* Client::download_photo, lines 1046-1080: the checks before the download
DownloadEnter(post, index, mk) ==
  LET st == download_photo_start(post, index, fs_dir, fs_files, mk)
  IN /\ mk \/ (~fs_dir /\ post.photo_urls # <<>> /\ index < Len(post.photo_urls))
     /\ dl_post' = post
     /\ photo_index' = index
     /\ expected_path' = st.expected
     /\ output_path' = <<>>
     /\ photo_resp' = NoResp
     /\ racers' = <<>>
     /\ reqs' = <<>>
     /\ fs_dir' = st.dir
     /\ LoginLocalsGone
     /\ PostsLocalsGone
     /\ CrawlLocalsGone
     /\ PureLocalsGone
     /\ UNCHANGED <<base_url, mock_mode, mock_before, fs_files>>

\* Client::download_photo called by the user of the client
DownloadPhoto(post, index, mk) ==
  LET st == download_photo_start(post, index, fs_dir, fs_files, mk)
  IN /\ pc = "idle"
     /\ op' = "download_photo"
     /\ DownloadEnter(post, index, mk)
     /\ ret' = st.ret
     /\ pc' = IF st.done THEN "idle" ELSE "dl_fetch"
     /\ DownloadAllLocalsGone

\* Client::download_photo, lines 1083-1125: the GET of the photo URL, the
\* writing of the file and of its metadata
DownloadFetch(resp, io) ==
  LET f == download_photo_fetch(dl_post, photo_index, resp, io, fs_files)
  IN /\ pc = "dl_fetch"
     /\ io = "ok" \/ (succeeded(resp) /\ resp.bodyok)
     /\ reqs' = Append(reqs, Req("photo", dl_post.photo_urls[photo_index + 1]))
     /\ photo_resp' = resp
     /\ output_path' = join(OutputDir, output_filename(dl_post, photo_index))
     /\ fs_files' = f.files
     /\ DownloadReturn(f.ret)
     /\ UNCHANGED <<base_url, fn_in, fn_out, mock_mode, mock_before, op, login_vars, posts_vars, crawl_vars,
                    fs_dir, dl_post, photo_index, expected_path, racers>>

\* Client::download_all_photos, lines 1228-1239
DownloadAll(post) ==
  /\ pc = "idle"
  /\ op' = "download_all_photos"
  /\ dl_post' = post
  /\ photo_index' = 0
  /\ expected_path' = <<>>
  /\ output_path' = <<>>
  /\ photo_resp' = NoResp
  /\ racers' = <<>>
  /\ da_i' = 0
  /\ downloaded_paths' = <<>>
  /\ attempts' = <<>>
  /\ reqs' = <<>>
  /\ ret' = NoResult
  /\ IF post.photo_urls = <<>>
       THEN da_on' = FALSE /\ da_ret' = [ok |-> TRUE, paths |-> <<>>] /\ pc' = "idle"
       ELSE da_on' = TRUE /\ da_ret' = NoResult /\ pc' = "da_call"
  /\ LoginLocalsGone
  /\ PostsLocalsGone
  /\ CrawlLocalsGone
  /\ PureLocalsGone
  /\ UNCHANGED <<base_url, mock_mode, mock_before, fs_vars>>

\* Client::download_all_photos, line 1243: download_photo(post, i), up to
\* the end of its checks
DownloadAllPhoto(mk) ==
  LET st == download_photo_start(dl_post, da_i, fs_dir, fs_files, mk)
  IN /\ pc = "da_call"
     /\ DownloadEnter(dl_post, da_i, mk)
     /\ IF st.done
          THEN DownloadReturn(st.ret)
          ELSE ret' = NoResult /\ pc' = "dl_fetch" /\ UNCHANGED da_loop_vars
     /\ UNCHANGED op

\* two calls of Client::download_photo for one post, one index and one
\* output directory start, on two threads that share the client or in two
\* processes
RaceStart(post, index) ==
  /\ pc = "idle"
  /\ op' = "download_photo twice"
  /\ pc' = "race"
  /\ dl_post' = post
  /\ photo_index' = index
  /\ racers' = [i \in 1..2 |-> [pc |-> "check", absent |-> FALSE, after |-> FALSE, ret |-> NoResult]]
  /\ reqs' = <<>>
  /\ ret' = NoResult
  /\ expected_path' = <<>>
  /\ output_path' = <<>>
  /\ photo_resp' = NoResp
  /\ DownloadAllLocalsGone
  /\ LoginLocalsGone
  /\ PostsLocalsGone
  /\ CrawlLocalsGone
  /\ PureLocalsGone
  /\ UNCHANGED <<base_url, mock_mode, mock_before, fs_vars>>

\* Client::download_photo, lines 1046-1080, in call i: the checks before
\* the download.  absent: the call found no file of the expected name;
\* after: the other call had returned Ok when this one checked
RaceCheck(i) ==
  LET st == download_photo_start(dl_post, photo_index, fs_dir, fs_files, TRUE)
      other == racers[3 - i]
  IN /\ pc = "race"
     /\ racers[i].pc = "check"
     /\ racers' = [racers EXCEPT ![i] = [pc |-> IF st.done THEN "done" ELSE "fetch",
                                       absent |-> ~st.done,
                                       after |-> other.pc = "done" /\ other.ret.ok,
                                       ret |-> st.ret]]
     /\ fs_dir' = st.dir
     /\ pc' = IF st.done /\ other.pc = "done" THEN "idle" ELSE "race"
     /\ UNCHANGED <<base_url, fn_in, fn_out, mock_mode, mock_before, op, reqs, ret, login_vars,
                    posts_vars, crawl_vars, fs_files, dl_post, photo_index, expected_path,
                    output_path, photo_resp, da_loop_vars>>

\* Client::download_photo, lines 1083-1125, in call i: the GET of the
\* photo URL, the writing of the file and of its metadata
RaceFetch(i, resp, io) ==
  LET f == download_photo_fetch(dl_post, photo_index, resp, io, fs_files)
  IN /\ pc = "race"
     /\ racers[i].pc = "fetch"
     /\ io = "ok" \/ (succeeded(resp) /\ resp.bodyok)
     /\ reqs' = Append(reqs, [tag |-> "photo", url |-> dl_post.photo_urls[photo_index + 1],
                              by |-> i])
     /\ fs_files' = f.files
     /\ racers' = [racers EXCEPT ![i].pc = "done", ![i].ret = f.ret]
     /\ pc' = IF racers[3 - i].pc = "done" THEN "idle" ELSE "race"
     /\ UNCHANGED <<base_url, fn_in, fn_out, mock_mode, mock_before, op, ret, login_vars,
                    posts_vars, crawl_vars, fs_dir, dl_post, photo_index, expected_path,
                    output_path, photo_resp, da_loop_vars>>

\* a function of the crate called on its own: it reads its arguments and
\* returns a value, and leaves the client and the file system alone
Call(name, args, value) ==
  /\ pc = "idle"
  /\ op' = name
  /\ fn_in' = args
  /\ fn_out' = value
  /\ UNCHANGED <<base_url, mock_mode, pc, reqs, ret, mock_before, login_vars, posts_vars,
                 crawl_vars, fs_dir, dl_vars>>

\* Client::extract_csrf_token on the text of a page
ExtractCsrf(doc) ==
  /\ Call("extract_csrf_token", doc, extract_csrf_token(doc))
  /\ UNCHANGED fs_files

\* Client::parse_posts_json on the text of an answer
ParseJson(body) ==
  /\ Call("parse_posts_json", [body |-> body], parse_posts_json(body))
  /\ UNCHANGED fs_files

\* Client::parse_posts_html on the text of an answer
ParseHtml(body) ==
  /\ Call("parse_posts_html", [body |-> body], parse_posts_html(body, base_url))
  /\ UNCHANGED fs_files

\* read_cache(CachePath, config) while the clock shows now
ReadCache(now, max_age_secs) ==
  /\ Call("read_cache", [now |-> now, max_age_secs |-> max_age_secs],
          read_cache(fs_files, CachePath, now, max_age_secs))
  /\ UNCHANGED fs_files

\* write_cache(CachePath, data, config) while the clock shows now
WriteCache(data, now, io) ==
  LET w == write_cache(fs_files, CachePath, data, now, io)
  IN /\ Call("write_cache", [now |-> now, data |-> data], w.res)
     /\ fs_files' = w.files

LoginNext ==
  \/ \E resp \in Resps : LoginApi(resp)
  \/ \E resp \in SigninResps, doc \in Docs : LoginSignin(resp, doc)
  \/ \E resp \in PostResps : LoginPost(resp)
  \/ \E resp \in Resps : LoginRedirect(resp)

PostsNext ==
  \/ \E p \in Pages, resp \in ListingResps : GetPrimary(p, resp)
  \/ \E resp \in ListingResps : GetFallback(resp)
  \/ \E resp \in SchoolResps, links \in LinkLists : GetDiscover(resp, links)
  \/ \E resp \in ListingResps : GetDiscovered(resp)

CrawlNext ==
  \/ CrawlStart
  \/ \E resp \in ListingResps : CrawlGetPrimary(resp)
  \/ \E resp \in ListingResps : GetFallback(resp)
  \/ \E resp \in SchoolResps, links \in LinkLists : GetDiscover(resp, links)
  \/ \E resp \in ListingResps : GetDiscovered(resp)

DownloadNext ==
  \/ \E post \in PhotoPosts, index \in 0..MaxIndex, mk \in BOOLEAN : DownloadPhoto(post, index, mk)
  \/ \E resp \in PhotoResps, io \in IoOutcomes : DownloadFetch(resp, io)
  \/ \E post \in PhotoPosts : DownloadAll(post)
  \/ \E mk \in BOOLEAN : DownloadAllPhoto(mk)

CsrfNext == \E doc \in Docs : ExtractCsrf(doc)

ParseNext ==
  \/ \E body \in JsonBodies \cup HtmlBodies \cup {[fmt |-> "text"]} : ParseJson(body)
  \/ \E body \in JsonBodies \cup HtmlBodies \cup {[fmt |-> "text"]} : ParseHtml(body)

CacheNext ==
  \/ \E now \in Times, max_age_secs \in 0..MaxAge : ReadCache(now, max_age_secs)
  \/ \E data \in Payloads, now \in Times, io \in CacheIoOutcomes : WriteCache(data, now, io)

RaceNext ==
  \/ \E post \in PhotoPosts, index \in 0..MaxIndex : RaceStart(post, index)
  \/ \E i \in 1..2 : RaceCheck(i)
  \/ \E i \in 1..2, resp \in PhotoResps, io \in IoOutcomes : RaceFetch(i, resp, io)

\* parse_posts_json on an array of one post object
FieldsNext ==
  \E o \in PostObjects : ParseJson([fmt |-> "json", root |-> Val("arr", <<o>>)])

Next == LoginNext \/ PostsNext \/ CrawlNext \/ DownloadNext \/ CsrfNext \/ ParseNext \/ CacheNext \/ FieldsNext \/ RaceNext

\* any sequence of calls on one client
Spec == Init /\ [][Next]_vars

\* any sequence of login calls on one client
SpecLogin == Init /\ [][LoginNext]_vars

\* any sequence of get_posts calls on one client
SpecPosts == Init /\ [][PostsNext]_vars

\* any sequence of crawl_all_posts calls on one client
SpecCrawl == Init /\ [][CrawlNext]_vars

\* any sequence of download_photo and download_all_photos calls on one
\* client and one output directory
SpecDownload == Init /\ [][DownloadNext]_vars

\* any sequence of pairs of download_photo calls that run at the same time
\* on one output directory
SpecRace == Init /\ [][RaceNext]_vars

\* any sequence of extract_csrf_token calls
SpecCsrf == Init /\ [][CsrfNext]_vars

\* any sequence of parse_posts_json and parse_posts_html calls
SpecParse == Init /\ [][ParseNext]_vars

\* any sequence of parse_posts_json calls on one post object
SpecFields == Init /\ [][FieldsNext]_vars

\* any sequence of read_cache and write_cache calls on one cache file
SpecCache == Init /\ [][CacheNext]_vars

(***************************************************************************)
(* Properties of Client::login                                             *)
(***************************************************************************)
Is2xx(resp) == resp.t = "http" /\ resp.status >= 200 /\ resp.status <= 299

LoginReturned == op = "login" /\ pc = "idle"

ApiFailed == api_resp # NoResp /\ ~Is2xx(api_resp)

BothFailed == LoginReturned /\ ApiFailed /\ ~web_result.ok

WebFormRequested == \E i \in 1..Len(reqs) : reqs[i].tag \in {"signin_get", "signin_post"}

\* the base URL names the local machine
AddressesLoopback == base_url[1] \in LoopbackOrigins

\* C1: when the API probe is answered with a 2xx status, login returns Ok
\* and has issued neither the sign-in page GET nor the login POST
C1_ApiSuccessSkipsWebForm ==
  (op = "login" /\ Is2xx(api_resp)) => (pc = "idle" /\ ret.ok /\ ~WebFormRequested)

C1_Witness == LoginReturned /\ Is2xx(api_resp) /\ api_resp.status = 204 /\ Len(reqs) = 1

\* C2: when the API probe fails and the web form succeeds, login returns Ok
\* and leaves the mock_mode flag as it was when the call started
C2_WebSuccessNoFallback ==
  (LoginReturned /\ ApiFailed /\ web_result.ok) => (ret.ok /\ mock_mode = mock_before)

C2_Witness ==
  LoginReturned /\ ApiFailed /\ web_result.ok /\ post_resp # NoResp /\ ~mock_mode

\* C3: with a base URL that does not name the local machine, a login in
\* which both strategies fail returns Err, and the client is never in mock
\* mode
C3_FallbackOnlyOnLoopback ==
  ~AddressesLoopback => (~mock_mode /\ (BothFailed => ~ret.ok))

\* the failures that C4 lists: a 401 or 5xx answer to the API probe ...
ApiOrdinaryFailure == api_resp.t = "http" /\ api_resp.status \in {401, 500}

\* ... and a non-2xx sign-in page, a sign-in form without a token, or a
\* wrong-credentials answer to the POST, none of them with status 408
WebOrdinaryFailure ==
  \/ signin_resp.t = "http" /\ ~Is2xx(signin_resp) /\ signin_resp.status # 408
  \/ /\ Is2xx(signin_resp) /\ signin_resp.bodyok /\ post_resp = NoResp
     /\ \E i \in 1..Len(html) : html[i].k = "form" /\ html[i].login
  \/ /\ post_resp.t = "http" /\ post_resp.status # 408 /\ post_resp.loc = "none"
     /\ post_resp.bodyok /\ post_resp.body.invalid

\* C4: on a loopback base URL, when the API probe fails with 401 or 5xx
\* and the web form fails in one of the listed ordinary ways, login
\* returns Ok and the client is in mock mode
C4_OrdinaryFailuresFallBack ==
  (BothFailed /\ AddressesLoopback /\ ApiOrdinaryFailure /\ WebOrdinaryFailure)
    => (ret.ok /\ mock_mode)

C4_Witness ==
  /\ BothFailed /\ AddressesLoopback /\ api_resp.status = 500
  /\ Is2xx(signin_resp) /\ post_resp = NoResp /\ html # <<>> /\ WebOrdinaryFailure
  /\ ret.ok /\ mock_mode /\ ~mock_before

Answered408(resp) == resp.t = "http" /\ resp.status = 408

\* C5, for the failures that are HTTP 408 answers: when both strategies
\* fail and the API probe, the sign-in page GET or the login POST was
\* answered with 408, login returns Err and leaves the mock_mode flag alone
C5_TimeoutNeverFallsBack ==
  (BothFailed /\ (Answered408(api_resp) \/ Answered408(signin_resp) \/ Answered408(post_resp)))
    => (~ret.ok /\ mock_mode = mock_before)

\* the sign-in page has no form with the soul[login] input and no token
NoFormNoToken ==
  /\ Is2xx(signin_resp) /\ signin_resp.bodyok /\ post_resp = NoResp
  /\ \A i \in 1..Len(html) : ~html[i].login /\ html[i].tok \in {"none", "novalue"}

\* C6: when the API probe fails and the sign-in page has neither a sign-in
\* form nor any CSRF token, login returns Err and leaves the mock_mode flag
\* alone, whatever the base URL
C6_MissingFormNeverFallsBack ==
  (LoginReturned /\ ApiFailed /\ NoFormNoToken) => (~ret.ok /\ mock_mode = mock_before)

C6_Witness ==
  /\ LoginReturned /\ AddressesLoopback /\ api_resp.t = "http" /\ api_resp.status = 401
  /\ NoFormNoToken /\ Len(html) = 2 /\ ~ret.ok /\ ~mock_mode

\* C7: when both strategies fail and login returns Err, the error returned
\* is the error of the web form
C7_ReturnsWebError ==
  (BothFailed /\ ~ret.ok) => ret = web_result

\* C8: when login returns Err after a 408 from both the API probe and the
\* sign-in page, or after a 401 from the API probe and a sign-in page
\* without form and token, the error text contains "Failed to authenticate"
C8_ErrorNamesAuthentication ==
  ( /\ BothFailed /\ ~ret.ok
    /\ \/ api_resp.t = "http" /\ api_resp.status = 408
          /\ signin_resp.t = "http" /\ signin_resp.status = 408
       \/ api_resp.t = "http" /\ api_resp.status = 401 /\ NoFormNoToken )
    => ( \/ Contains(DebugFmt(ret), "Failed to authenticate")
         \/ Contains(Display(ret), "Failed to authenticate") )

(***************************************************************************)
(* Properties of Client::get_posts                                         *)
(***************************************************************************)
\* C9: when the primary URL is answered with a 2xx status, get_posts issues
\* no other request: no fallback URL, no school page, no discovered URL
C9_PrimarySuccessNoFallback ==
  (op = "get_posts" /\ Is2xx(primary_resp))
    => (pc = "idle" /\ Len(reqs) = 1 /\ reqs[1].tag = "primary")

C9_Witness ==
  /\ op = "get_posts" /\ pc = "idle" /\ Is2xx(primary_resp) /\ primary_resp.status = 204
  /\ ret.ok /\ Len(reqs) = 1

\* the URL of the request that was answered with the body that is parsed
AnsweringUrl == reqs[Len(reqs)].url

\* C10: the body is parsed as JSON exactly when the URL that was answered
\* with it contains ".json"
C10_ParserFollowsAnsweringUrl ==
  (op = "get_posts" /\ pc = "idle" /\ parser # "none")
    => (parser = "json" <=> Contains(AnsweringUrl, ".json"))

\* the two errors of lines 694-717
StatusBased(r) ==
  ~r.ok /\ r.msg[1] = "Failed to fetch posts from Transparent Classroom. Status: "

Connectivity(r) ==
  ~r.ok /\ r.msg[1] = "Failed to connect to Transparent Classroom for fetching posts. "

\* C11: when every URL that get_posts tried has failed, the error is the
\* status-based message if the primary, a fallback or a discovered URL was
\* answered with an HTTP response, and the connectivity message if none was
C11_StatusMessageIffAnswered ==
  (op = "get_posts" /\ pc = "idle" /\ ~succeeded(response))
    => IF answered THEN StatusBased(ret) ELSE Connectivity(ret)

(***************************************************************************)
(* Properties of Client::crawl_all_posts                                   *)
(***************************************************************************)
CrawlReturned == op = "crawl_all_posts" /\ pc = "idle"

LastResult == page_results[Len(page_results)]

RECURSIVE PostsOfPages(_, _)
\* the posts of the first k pages, in page order
PostsOfPages(results, k) ==
  IF k = 0 THEN <<>> ELSE PostsOfPages(results, k - 1) \o results[k].posts

\* C12: when the pages 1..k have given posts and page k+1 has given an empty
\* list, crawl_all_posts has returned, it has asked for exactly the pages
\* 1..k+1 in this order, and it returns the posts of the pages 1..k in
\* page order
C12_CrawlStopsAtEmptyPage ==
  ( /\ op = "crawl_all_posts" /\ Len(page_results) >= 1
    /\ LastResult.ok /\ LastResult.posts = <<>>
    /\ \A i \in 1..(Len(page_results) - 1) : page_results[i].ok /\ page_results[i].posts # <<>> )
    => ( /\ pc = "idle" /\ ~crawl_on
         /\ pages_req = [i \in 1..Len(page_results) |-> i]
         /\ crawl_ret = [ok |-> TRUE,
                         posts |-> PostsOfPages(page_results, Len(page_results) - 1)] )

C12_Witness ==
  /\ CrawlReturned /\ Len(page_results) = 3 /\ LastResult.ok /\ crawl_ret.ok
  /\ Len(crawl_ret.posts) = 2 /\ crawl_ret.posts[1] # crawl_ret.posts[2]

\* C13: when get_posts fails on a page of the crawl, by a fetch failure or
\* by a parse failure, crawl_all_posts has returned, and what it returns is
\* that error and no post
C13_CrawlReturnsPageError ==
  (op = "crawl_all_posts" /\ Len(page_results) >= 1 /\ ~LastResult.ok)
    => (pc = "idle" /\ ~crawl_on /\ crawl_ret = LastResult)

C13_Witness ==
  /\ CrawlReturned /\ Len(page_results) = 2 /\ all_posts # <<>>
  /\ ~LastResult.ok /\ LastResult.kind = "Parse" /\ crawl_ret = LastResult

\* the id was given by the site, not synthesized as post_<index>
SiteAssigned(post) == post.id[1] # "post_"

PairwiseDistinctIds(posts) ==
  \A i, j \in 1..Len(posts) : i # j => posts[i].id # posts[j].id

\* C17: when the ids that the site assigned are pairwise distinct, the posts
\* that crawl_all_posts returns have pairwise distinct ids, the synthesized
\* ones included
C17_CrawlIdsDistinct ==
  ( /\ CrawlReturned /\ crawl_ret.ok
    /\ \A i, j \in 1..Len(crawl_ret.posts) :
         (i # j /\ SiteAssigned(crawl_ret.posts[i]) /\ SiteAssigned(crawl_ret.posts[j]))
           => crawl_ret.posts[i].id # crawl_ret.posts[j].id )
    => PairwiseDistinctIds(crawl_ret.posts)

(***************************************************************************)
(* Properties of Client::download_photo and Client::download_all_photos    *)
(***************************************************************************)
\* download_photo has returned to the user of the client
PhotoReturned == op = "download_photo" /\ pc = "idle"

\* the photo URL that the call was asked to download
AskedUrl == dl_post.photo_urls[photo_index + 1]

\* the call has sent the GET of the photo URL
Fetched == \E i \in 1..Len(reqs) : reqs[i].tag = "photo"

\* C14: a download_photo call that follows one for the same post and index
\* which fetched the photo and returned Ok sends no GET and returns the
\* same path
C14_SecondCallSkipsFetch ==
  [][ ( /\ PhotoReturned /\ ret.ok /\ Fetched
        /\ op' = "download_photo" /\ dl_post' = dl_post /\ photo_index' = photo_index )
      => (pc' = "idle" /\ ~Fetched' /\ ret' = ret) ]_vars

C14_Witness ==
  /\ PhotoReturned /\ ret.ok /\ ~Fetched /\ exists(fs_files, ret.path)
  /\ FileAt(fs_files, ret.path).from = AskedUrl /\ FileAt(fs_files, ret.path).complete
  /\ exists(fs_files, with_extension(ret.path, "metadata.txt"))

\* the file name that the claim gives for a photo
NameByRule(post, index) ==
  IF Len(post.photo_urls) > 1 THEN post.id \o <<"_", ToString(index), "_max.jpg">>
  ELSE post.id \o <<"_max.jpg">>

\* C15: the name that the existence check looks for and the name that is
\* written are both <id>_<index>_max.jpg for a post with several photos and
\* <id>_max.jpg for a post with one
C15_OneNameForCheckAndWrite ==
  (op \in {"download_photo", "download_all_photos"} /\ expected_path # <<>>)
    => ( /\ expected_path = <<"photos", "/">> \o NameByRule(dl_post, photo_index)
         /\ output_path # <<>> => output_path = expected_path
         /\ (photo_resp # NoResp /\ ret.ok) => ret.path = expected_path )

C15_Witness ==
  /\ PhotoReturned /\ ret.ok /\ Fetched /\ Len(dl_post.photo_urls) = 1
  /\ output_path = expected_path /\ exists(fs_files, output_path)

\* C16: a download_photo call that skips the download because the file is
\* there returns a file that was downloaded from the photo URL it was asked
\* for
C16_SkipOnlyOwnPhoto ==
  (PhotoReturned /\ ret.ok /\ ~Fetched)
    => FileAt(fs_files, ret.path).from = AskedUrl

AllReturned == op = "download_all_photos" /\ pc = "idle"

RECURSIVE PathsOfOk(_, _)
\* the paths of the first k calls that returned Ok, in call order
PathsOfOk(calls, k) ==
  IF k = 0 THEN <<>>
  ELSE IF calls[k].ret.ok THEN Append(PathsOfOk(calls, k - 1), calls[k].ret.path)
  ELSE PathsOfOk(calls, k - 1)

\* C18: download_all_photos returns Ok; it has called download_photo for
\* the indices 0..n-1 in this order, and it returns the paths of the calls
\* that returned Ok, in index order
C18_AllIndicesAttempted ==
  AllReturned
    => ( /\ da_ret.ok
         /\ Len(attempts) = Len(dl_post.photo_urls)
         /\ \A k \in 1..Len(attempts) : attempts[k].index = k - 1
         /\ da_ret.paths = PathsOfOk(attempts, Len(attempts)) )

C18_Witness ==
  /\ AllReturned /\ Len(attempts) = 2 /\ ~attempts[1].ret.ok /\ attempts[2].ret.ok
  /\ da_ret.ok /\ da_ret.paths = <<attempts[2].ret.path>>

\* C19: a download_photo call with an index that is not below the number
\* of photo URLs returns Err, sends no request, and leaves the output
\* directory and its files as they were
C19_BadIndexTouchesNothing ==
  [][ ( /\ pc = "idle" /\ op' = "download_photo"
        /\ photo_index' >= Len(dl_post'.photo_urls) )
      => ( /\ pc' = "idle" /\ ~ret'.ok /\ reqs' = <<>>
           /\ fs_dir' = fs_dir /\ fs_files' = fs_files ) ]_vars

C19_Witness ==
  /\ PhotoReturned /\ ~ret.ok /\ ~fs_dir /\ reqs = <<>>
  /\ Len(dl_post.photo_urls) = 2 /\ photo_index = 2

\* the fragments of part occur in text, side by side and in order
Occurs(part, text) ==
  \E i \in 0..(Len(text) - Len(part)) : SubSeq(text, i + 1, i + Len(part)) = part

\* C20: when download_photo has fetched the photo and returns Ok, the file
\* at the returned path holds the bytes of the response, all of them, and
\* the file <stem>.metadata.txt next to it holds the title, author, date,
\* url and id of the post and the school's location and keywords
C20_PhotoAndSidecarWritten ==
  (op \in {"download_photo", "download_all_photos"} /\ photo_resp # NoResp /\ ret.ok)
    => ( /\ exists(fs_files, ret.path)
         /\ FileAt(fs_files, ret.path).k = "photo"
         /\ FileAt(fs_files, ret.path).bytes = photo_resp.bytes
         /\ FileAt(fs_files, ret.path).complete
         /\ LET stem == SubSeq(ret.path, 1, Len(ret.path) - 1) \o <<"_max">>
                side == stem \o <<".", "metadata.txt">>
            IN /\ exists(fs_files, side)
               /\ FileAt(fs_files, side).k = "text"
               /\ \A part \in { dl_post.title, dl_post.author, dl_post.date, dl_post.url,
                                dl_post.id, <<SchoolLat>>, <<SchoolLng>>, <<SchoolKeywords>> } :
                    Occurs(part, FileAt(fs_files, side).text) )

C20_Witness ==
  /\ PhotoReturned /\ ret.ok /\ Fetched /\ photo_resp.status = 204
  /\ photo_resp.bytes = "html2" /\ FileAt(fs_files, ret.path).bytes = "html2"
  /\ Cardinality(fs_files) = 2

(***************************************************************************)
(* Properties of login_web_form's reading of the answer to the POST        *)
(***************************************************************************)
\* the POST has been answered and login_web_form has ended
PostDone == op = "login" /\ post_resp # NoResp /\ pc \in {"idle", "panicked"}

\* C28: a login POST answered with a redirect status makes the web form
\* succeed, whatever the body and the other headers of the answer
C28_RedirectStatusMeansSuccess ==
  (PostDone /\ pc = "idle" /\ post_resp.t = "http" /\ is_redirection(post_resp.status))
    => web_result.ok

\* the answer is no redirect and its body holds no invalid-credentials
\* phrase, not both field names and no authenticated marker
NoSignInBody ==
  /\ post_resp.t = "http" /\ ~is_redirection(post_resp.status) /\ post_resp.bodyok
  /\ ~post_resp.body.invalid /\ ~post_resp.body.fields /\ ~post_resp.body.marker

IsListing(i) == reqs[i].tag \in {"primary", "fallback", "discovered"}

\* the call has ended and no listing URL was answered with 2xx
AllCandidatesFailed ==
  pc = "idle" /\ \A i \in 1..Len(reqs) : IsListing(i) => ~reqs[i].ok

\* C24: the requests of get_posts are the primary URL, then the predefined
\* fallback URLs in their listed order, then the school page, then the
\* discovered URLs in sorted order; every request that is followed by
\* another listing or school request was not answered with 2xx, and a call
\* that ends without a 2xx answer has gone through all fallbacks, the
\* school page and all discovered URLs
C24_CandidatesInOrder ==
  op = "get_posts" =>
    /\ reqs[1].tag = "primary" /\ reqs[1].url = primary_url(base_url, page)
    /\ \A i \in 2..Len(reqs) :
         /\ IsListing(i - 1) => ~reqs[i - 1].ok
         /\ IF i <= 8
              THEN /\ reqs[i].tag = "fallback"
                   /\ reqs[i].url = fallback_urls(base_url, page)[i - 1]
            ELSE IF i = 9
              THEN reqs[i].tag = "school" /\ reqs[i].url = base_url
            ELSE /\ reqs[i].tag = "discovered"
                 /\ i - 9 <= Len(discovered)
                 /\ reqs[i].url = discovered[i - 9]
    /\ \A j \in 1..(Len(discovered) - 1) : StrLess(discovered[j], discovered[j + 1], 1)
    /\ AllCandidatesFailed => Len(reqs) = 9 + Len(discovered)

C24_Witness ==
  /\ op = "get_posts" /\ pc = "idle" /\ Len(discovered) = 2 /\ Len(reqs) = 11
  /\ reqs[11].ok /\ ~reqs[10].ok

\* C25: get_posts returns Ok only when one of its listing GETs was answered
\* with a 2xx status
C25_OkNeedsAnAnswer ==
  (op = "get_posts" /\ pc = "idle" /\ ret.ok)
    => \E i \in 1..Len(reqs) : IsListing(i) /\ reqs[i].ok

C25_Witness ==
  /\ op = "get_posts" /\ pc = "idle" /\ ~ret.ok /\ AllCandidatesFailed
  /\ \E i \in 1..Len(reqs) : reqs[i].tag = "discovered"
  /\ answered

(***************************************************************************)
(* Properties of Client::extract_csrf_token                                *)
(***************************************************************************)
\* the sign-in forms of the page that carry a token
TokenForms(doc) ==
  { i \in 1..Len(doc) : IsSigninForm(doc[i]) /\ doc[i].tok \notin {"none", "novalue"} }

\* the page has a form with the login field
HasSigninForm(doc) == \E i \in 1..Len(doc) : IsSigninForm(doc[i])

\* C26: when some form with the login field holds a token, whatever its
\* place among the forms, extract_csrf_token returns the token of such a
\* form; the meta tag and the standalone input are used only when no form
\* with the login field holds a token
C26_TokenOfAnySigninForm ==
  (op = "extract_csrf_token" /\ TokenForms(fn_in) # {})
    => (fn_out.ok /\ \E i \in TokenForms(fn_in) : fn_out.tok = fn_in[i].tok)

\* C27: when extract_csrf_token finds no token, the error is "Could not
\* find sign-in form in page" exactly when no form of the page has the
\* login field, and "Could not find CSRF token in sign-in form" exactly when
\* some form has it
C27_ErrorTellsWhetherFormFound ==
  (op = "extract_csrf_token" /\ ~fn_out.ok)
    => /\ fn_out = Parse(<<"Could not find sign-in form in page">>) <=> ~HasSigninForm(fn_in)
       /\ fn_out = Parse(<<"Could not find CSRF token in sign-in form">>) <=> HasSigninForm(fn_in)

C27_Witness ==
  /\ op = "extract_csrf_token" /\ ~fn_out.ok /\ Len(fn_in) = 2
  /\ fn_in[1].k = "form" /\ ~fn_in[1].login /\ IsSigninForm(fn_in[2])
  /\ fn_out.msg = <<"Could not find CSRF token in sign-in form">>

(***************************************************************************)
(* Properties of read_cache and write_cache                                *)
(***************************************************************************)
\* a time as a whole number of half seconds
HalfSecs(t) == 2 * t.secs + (IF t.nanos = 0 THEN 0 ELSE 1)

\* the cache file holds a well-formed entry
EntryExists == exists(fs_files, CachePath) /\ FileAt(fs_files, CachePath).k = "cache"

\* the time the entry was stamped with
EntryTime == deserialize_time(FileAt(fs_files, CachePath).timestamp)

\* a read answers with the entry of the file
ReadHit ==
  /\ fn_out.ok /\ fn_out.some
  /\ fn_out.data = [timestamp |-> EntryTime, payload |-> FileAt(fs_files, CachePath).payload]

ReadMiss == fn_out.ok /\ ~fn_out.some

\* a write that returns Ok leaves an entry with the time of the write
WriteStampsNow ==
  (op = "write_cache" /\ fn_out.ok)
    => ( /\ EntryExists /\ EntryTime = fn_in.now
         /\ FileAt(fs_files, CachePath).payload = fn_in.data )

\* C23 as stated: a read of a well-formed entry is a hit exactly when
\* now - timestamp <= max_age_secs and a miss otherwise, and a write stamps
\* the entry with the time of the write
C23_HitIffAgeAtMostMax ==
  /\ (op = "read_cache" /\ EntryExists)
       => IF HalfSecs(fn_in.now) - HalfSecs(EntryTime) <= 2 * fn_in.max_age_secs
            THEN ReadHit ELSE ReadMiss
  /\ WriteStampsNow

\* C23: a read of a well-formed entry is a hit exactly when
\* 0 <= now - timestamp <= max_age_secs and a miss otherwise, an entry
\* stamped after now included, and a write stamps the entry with the time
\* of the write
C23_HitIffAgeWithinZeroAndMax ==
  /\ (op = "read_cache" /\ EntryExists)
       => IF /\ 0 <= HalfSecs(fn_in.now) - HalfSecs(EntryTime)
             /\ HalfSecs(fn_in.now) - HalfSecs(EntryTime) <= 2 * fn_in.max_age_secs
            THEN ReadHit ELSE ReadMiss
  /\ WriteStampsNow

C23_Witness ==
  /\ op = "read_cache" /\ EntryExists /\ ReadMiss
  /\ HalfSecs(EntryTime) = HalfSecs(fn_in.now) + 1 /\ fn_in.max_age_secs = 1

(***************************************************************************)
(* Properties of parse_posts_json and parse_posts_html                     *)
(***************************************************************************)
\* where the array of posts can be: the root, the "posts" member, the
\* "data" member
ArrayCandidates(root) == <<root, get(root, "posts"), get(root, "data")>>

\* the first of them that is an array, 0 if none is
FirstArrayAt(root) ==
  LET S == { i \in 1..3 : ArrayCandidates(root)[i].t = "arr" }
  IN IF S = {} THEN 0 ELSE CHOOSE i \in S : \A j \in S : i <= j

AllObjects(items) == \A i \in 1..Len(items) : items[i].t = "obj"

\* the posts returned are those of items, one for one
PostsFrom(items) ==
  /\ fn_out.ok /\ Len(fn_out.posts) = Len(items)
  /\ \A i \in 1..Len(items) :
       get(items[i], "id").t = "str" => fn_out.posts[i].id = get(items[i], "id").v

\* C30 as stated: parse_posts_json takes the posts from the first array
\* among the root, "posts" and "data", an empty one included, and returns a
\* parse error only when none of the three is an array
C30_FirstArrayAmongThree ==
  (op = "parse_posts_json" /\ fn_in.body.fmt = "json")
    => LET root == fn_in.body.root
           k == FirstArrayAt(root)
       IN IF k = 0 THEN ~fn_out.ok /\ fn_out.kind = "Parse"
          ELSE AllObjects(ArrayCandidates(root)[k].v) => PostsFrom(ArrayCandidates(root)[k].v)

\* C30: parse_posts_json takes the posts from the root when it is an array,
\* else from the "posts" member when there is one, else from the "data"
\* member when there is one; it returns a parse error when the value so
\* chosen is no array (a "data" array behind a "posts" member that is no
\* array is not used), when there is neither member, or when an element of
\* the array is no object; an empty array gives Ok with no posts
C30_FirstPresentMember ==
  (op = "parse_posts_json" /\ fn_in.body.fmt = "json")
    => LET root == fn_in.body.root
           chosen == IF root.t = "arr" THEN root
                     ELSE IF get(root, "posts").t # "absent" THEN get(root, "posts")
                     ELSE get(root, "data")
       IN IF chosen.t # "arr"
            THEN fn_out = Parse(<<IF get(root, "posts").t # "absent"
                                    THEN "Posts field is not an array"
                                  ELSE IF get(root, "data").t # "absent"
                                    THEN "Data field is not an array"
                                  ELSE "Could not find posts array in JSON response">>)
          ELSE IF AllObjects(chosen.v) THEN PostsFrom(chosen.v)
          ELSE ~fn_out.ok /\ fn_out.kind = "Parse" /\ fn_out.msg[1] = "Post "

C30_Witness ==
  /\ op = "parse_posts_json" /\ fn_in.body.fmt = "json"
  /\ get(fn_in.body.root, "posts").t = "null"
  /\ get(fn_in.body.root, "data").t = "arr" /\ Len(get(fn_in.body.root, "data").v) = 2
  /\ fn_out = Parse(<<"Posts field is not an array">>)

RECURSIVE Sources(_)
\* the src attributes of the img elements that have one, in document order
Sources(imgs) ==
  IF imgs = <<>> THEN <<>>
  ELSE (IF Head(imgs) = <<>> THEN <<>> ELSE <<Head(imgs)[1]>>) \o Sources(Tail(imgs))

EndsWith(text, part) ==
  Len(part) <= Len(text) /\ SubSeq(text, Len(text) - Len(part) + 1, Len(text)) = part

\* C22: parse_posts_html returns Ok with one Post for each .observation
\* element, in document order: post i has the id of element i (post_<i>
\* without one) and one photo URL for each img source of element i, in the
\* order of the img elements; a body without .observation element gives Ok
\* with no posts
C22_OnePostPerObservation ==
  op = "parse_posts_html"
    => /\ fn_out.ok
       /\ fn_in.body.fmt # "html" => fn_out.posts = <<>>
       /\ fn_in.body.fmt = "html" =>
            LET obs == fn_in.body.observations
            IN /\ Len(fn_out.posts) = Len(obs)
               /\ \A i \in 1..Len(obs) :
                    LET src == Sources(obs[i].imgs)
                        urls == fn_out.posts[i].photo_urls
                    IN /\ fn_out.posts[i].id = IF obs[i].id # <<>> THEN obs[i].id[1]
                                              ELSE <<"post_", ToString(i - 1)>>
                       /\ Len(urls) = Len(src)
                       /\ \A j \in 1..Len(src) : EndsWith(urls[j], src[j])

C22_Witness ==
  /\ op = "parse_posts_html" /\ fn_in.body.fmt = "html" /\ Len(fn_out.posts) = 2
  /\ Len(fn_out.posts[1].photo_urls) = 2 /\ Len(fn_out.posts[2].photo_urls) = 1
  /\ fn_out.posts[1].photo_urls[1] # fn_out.posts[1].photo_urls[2]
  /\ Len(fn_in.body.observations[2].imgs) = 2

\* the lists of posts and the two documents that encode a list
LogicalLists ==
  UNION { [1..n -> { LogicalPost[k] : k \in DOMAIN LogicalPost }] : n \in 0..MaxItems }

JsonDoc(l) == [fmt |-> "json", root |-> Val("arr", [i \in 1..Len(l) |-> JsonOf(l[i])])]

HtmlDoc(l) == [fmt |-> "html", observations |-> [i \in 1..Len(l) |-> HtmlOf(l[i])]]

\* C21: for the JSON document and the HTML document that encode the same
\* list of posts, parse_posts_json returns what parse_posts_html returns
C21_SamePostsFromBothFormats ==
  \A l \in LogicalLists :
    (op = "parse_posts_json" /\ fn_in.body = JsonDoc(l))
      => fn_out = parse_posts_html(HtmlDoc(l), base_url)

(***************************************************************************)
(* Properties of the title and the photo URLs that parse_posts_json gives *)
(* a post                                                                 *)
(***************************************************************************)
\* parse_posts_json has returned the one post of a one-object array
OnePostParsed ==
  /\ op = "parse_posts_json"
  /\ fn_in.body.fmt = "json" /\ fn_in.body.root.t = "arr" /\ Len(fn_in.body.root.v) = 1
  /\ fn_in.body.root.v[1].t = "obj"
  /\ fn_out.ok

\* the object that the post was built from
PostObject == fn_in.body.root.v[1]

\* the member of o under key when it is a string
Supplies(o, key) == get(o, key).t = "str"

\* C31: the title of a JSON post is the plain text of its "html" member
\* when that text is not empty, otherwise the first of normalized_text,
\* title, text and content that supplies a string, and "Untitled Post"
\* only when none of them does
C31_TitleFallsThroughAllFields ==
  OnePostParsed =>
    fn_out.posts[1].title =
      (LET o == PostObject
       IN IF Supplies(o, "html") /\ element_text(get(o, "html").v) # <<>>
            THEN element_text(get(o, "html").v)
          ELSE IF Supplies(o, "normalized_text") THEN get(o, "normalized_text").v
          ELSE IF Supplies(o, "title") THEN get(o, "title").v
          ELSE IF Supplies(o, "text") THEN get(o, "text").v
          ELSE IF Supplies(o, "content") THEN get(o, "content").v
          ELSE <<"Untitled Post">>)

\* a URL is available under key when the member is a string that is not
\* empty
Available(o, key) == Supplies(o, key) /\ get(o, key).v # <<>>

\* C32: photo_urls of a JSON post starts with original_photo_url when it
\* is available, else with photo_url, and goes on with the URLs of the
\* photos array, or else of the images array, in array order
C32_OriginalElseThumbThenListed ==
  OnePostParsed =>
    fn_out.posts[1].photo_urls =
      (LET o == PostObject
       IN (IF Available(o, "original_photo_url") THEN <<get(o, "original_photo_url").v>>
           ELSE IF Available(o, "photo_url") THEN <<get(o, "photo_url").v>>
           ELSE <<>>)
          \o (IF get(o, "photos").t = "arr" THEN listed_urls(get(o, "photos").v)
              ELSE IF get(o, "images").t = "arr" THEN listed_urls(get(o, "images").v)
              ELSE <<>>))

(***************************************************************************)
(* Properties of two download_photo calls that run at the same time      *)
(***************************************************************************)
\* both calls have returned
BothReturned == racers # <<>> /\ \A i \in 1..2 : racers[i].pc = "done"

\* call i has sent the GET of the photo URL
FetchedBy(i) == \E k \in 1..Len(reqs) : reqs[k].tag = "photo" /\ reqs[k].by = i

\* C33: of two calls for the same post, index and directory, each one
\* whose check found no file fetches and writes, whatever the other has
\* done since; only a call that checks after the other has returned Ok
\* skips the fetch
C33_OneFetchOnlyWhenSequential ==
  BothReturned =>
    \A i \in 1..2 :
      /\ racers[i].absent <=> FetchedBy(i)
      /\ racers[i].after => (~FetchedBy(i) /\ racers[i].ret = racers[3 - i].ret)

\* both calls found no file, both fetched the one URL and both wrote the
\* one file
C33_Witness ==
  /\ BothReturned
  /\ racers[1].absent /\ racers[2].absent
  /\ Len(reqs) = 2 /\ reqs[1].url = reqs[2].url /\ reqs[1].by # reqs[2].by
  /\ racers[1].ret.ok /\ racers[2].ret = racers[1].ret
  /\ exists(fs_files, racers[1].ret.path)

(***************************************************************************)
(* Properties of the URLs that answer the pages of a crawl                *)
(***************************************************************************)
\* get_posts has returned a page with posts to crawl_all_posts
GotPage ==
  /\ op = "crawl_all_posts" /\ pc \in {"crawl_call", "idle"}
  /\ Len(page_results) >= 1 /\ page = Len(page_results)
  /\ succeeded(response) /\ ret.ok /\ ret.posts # <<>>

\* C34: the URL that answers page n of a crawl depends on n: it is not
\* discovered from the school page, which is the same for every page, and
\* it is not a URL that get_posts tries for another page
C34_AnsweringUrlDependsOnPage ==
  GotPage =>
    /\ reqs[Len(reqs)].tag # "discovered"
    /\ \A m \in 1..(MaxCrawl + 1) :
         m # page =>
           /\ AnsweringUrl # primary_url(base_url, m)
           /\ \A k \in 1..Len(fallback_urls(base_url, m)) :
                AnsweringUrl # fallback_urls(base_url, m)[k]

(***************************************************************************)
(* Properties of what download_photo leaves in the output directory       *)
(***************************************************************************)
\* C35: when download_photo has sent the GET and returns Err, there is no
\* file at the path of the photo
C35_ErrLeavesNoPhoto ==
  (PhotoReturned /\ photo_resp # NoResp /\ ~ret.ok) => ~exists(fs_files, output_path)

\* C36: when a download_photo call has returned Ok(path), with or without
\* a fetch, the photo at path and the file <stem>.metadata.txt are there
C36_OkMeansPhotoAndSidecar ==
  (op \in {"download_photo", "download_all_photos"} /\ pc \in {"idle", "da_call"} /\ ret.ok)
    => ( /\ exists(fs_files, ret.path)
         /\ exists(fs_files, with_extension(ret.path, "metadata.txt")) )

(***************************************************************************)
(* Properties of the mock-mode flag over several logins                   *)
(***************************************************************************)
\* C37: after a login that returned Ok, the mock-mode flag is set exactly
\* when this login succeeded by the fallback, after both strategies failed
C37_FlagReflectsLastLogin ==
  (LoginReturned /\ ret.ok) => (mock_mode <=> BothFailed)

(***************************************************************************)
(* Properties of the fallback decision of two logins that differ in the   *)
(* text of the answer to the POST                                         *)
(***************************************************************************)
\* the starts of body that leave login_web_form a preview to print
Excerpts == { b.excerpt : b \in Bodies } \ {SplitExcerpt}

\* C38: when both strategies have failed and the POST was answered with a
\* body, a login that differs from this one only in the start of that body
\* takes the same fallback decision
C38_DecisionIgnoresExcerpt ==
  (BothFailed /\ post_resp # NoResp /\ post_resp.t = "http" /\ post_resp.bodyok)
    => \A e \in Excerpts :
         LET other == [post_resp EXCEPT !.body.excerpt = e]
         IN should_use_mock_mode(base_url, api_result, post_outcome(base_url, other))
            = ret.ok

(***************************************************************************)
(* Properties of the hosts that get_posts sends requests to               *)
(***************************************************************************)
\* C39: every request of get_posts goes to the origin of the base URL of
\* the client, but for a discovered URL that the school page gives in full
C39_RequestsStayOnBaseHost ==
  op = "get_posts" =>
    \A i \in 1..Len(reqs) :
      \/ reqs[i].url \in { h \in Hrefs : StartsWith(h, "^http") }
      \/ reqs[i].url[1] = base_url[1]

====
